---- MODULE Spec2Model ----
(***************************************************************************)
(* Model of the tradebook backtester: the account (open positions, cash   *)
(* balance, position IDs) of internal/account/account.go and the engine   *)
(* loop of internal/backtest/engine.go.                                   *)
(*                                                                         *)
(* Prices, sizes and balances are float64 in the source; the model takes  *)
(* them from small sets of integers, on which the arithmetic of the code  *)
(* (sums, differences, products) is exact.  Timestamps are integers.      *)
(***************************************************************************)
EXTENDS Integers, Sequences, FiniteSets, TLC

(* ------------------------------ bounds -------------------------------- *)
\* longest bar sequence handed to NewEngine
MaxBars == 2
\* most signals all OnBar calls of one run return together
MaxSignals == 2
\* most account operations in a free sequence of account calls
MaxCalls == 3

(* --------------------------- input domains ---------------------------- *)
LONG == "LONG"
SHORT == "SHORT"
BUY == "BUY"
SELL == "SELL"
OPEN_TRADE == "OPEN_TRADE"

InitialBalances == {10000, 500}

\* types.Bar without its timestamp: a flat bar, a falling bar, a rising bar
\* and a wide bar whose close lies strictly between its low and its high
BarShapes ==
    {[Open |-> 2, High |-> 2, Low |-> 2, Close |-> 2],
     [Open |-> 2, High |-> 2, Low |-> 1, Close |-> 1],
     [Open |-> 2, High |-> 4, Low |-> 2, Close |-> 4],
     [Open |-> 1, High |-> 4, Low |-> 1, Close |-> 2]}

\* the timestamp of the bar at 1-based position k of a bar sequence
TimeOf(k) == 10 * k

Bar(shape, k) ==
    [Timestamp |-> TimeOf(k), Open |-> shape.Open, High |-> shape.High,
     Low |-> shape.Low, Close |-> shape.Close]

BarSeqs ==
    UNION {{[k \in 1..n |-> Bar(f[k], k)] : f \in [1..n -> BarShapes]} :
           n \in 0..MaxBars}

\* types.Signal: a long and a short with the stop on the losing side, a long
\* whose levels are the wrong way round, and a signal of another type than
\* OPEN_TRADE
Signals ==
    {[Type |-> OPEN_TRADE, Action |-> BUY, Price |-> 2, TP |-> 3, SL |-> 1,
      Size |-> 1],
     [Type |-> OPEN_TRADE, Action |-> SELL, Price |-> 2, TP |-> 1, SL |-> 3,
      Size |-> 2],
     [Type |-> OPEN_TRADE, Action |-> BUY, Price |-> 4, TP |-> 1, SL |-> 2,
      Size |-> 2],
     [Type |-> "CLOSE_TRADE", Action |-> SELL, Price |-> 2, TP |-> 1,
      SL |-> 3, Size |-> 1]}

SignalLists(n) == UNION {[1..m -> Signals] : m \in 0..n}

(* ------------------------------ state --------------------------------- *)
VARIABLES
    Balance,          \* Account.Balance
    openPositions,    \* Account.openPositions
    nextPositionID,   \* Account.nextPositionID
    bars,             \* Engine.Bars
    initialBalance,   \* Engine.initialBalance
    results,          \* the Results under construction in Run
    i,                \* loop index of Run (0-based)
    signals,          \* signals returned by OnBar, not yet processed
    pc,               \* position in Run
    emitted,          \* number of signals OnBar has returned so far
    calls,            \* history: the account/strategy calls made so far
    closeLog,         \* history: every closePosition call made so far
    ema,              \* an EMA indicator (<<>>: none constructed)
    sma,              \* an SMA indicator (<<>>: none constructed)
    atr,              \* an ATR indicator (<<>>: none constructed)
    atrCandle,        \* an ATRCandle indicator, whose ATR is atr
    calcResults,      \* the Results Calculate is called on
    enabledTopics,    \* logging: the package variable enabledTopics
    loggers,          \* logging: the Loggers created by New
    logged,           \* logging: the records handed to slog
    strat,            \* the configuration of a strategy (<<>>: none)
    fetch,            \* the activation of OandaService.FetchBars (<<>>: none)
    runs,             \* the activations of Run on one shared Engine
    fed               \* history: the calls made on the component

\* the state of the account and of the engine's Run
runVars == <<Balance, openPositions, nextPositionID, bars, initialBalance,
             results, i, signals, pc, emitted, calls, closeLog>>

\* the state of the components that are stepped outside the engine
indicatorVars == <<ema, sma, atr, atrCandle>>
loggingVars == <<enabledTopics, loggers, logged>>
serviceVars == <<strat, fetch, runs>>
componentVars == <<indicatorVars, calcResults, loggingVars, serviceVars, fed>>

\* no component has been constructed
NoIndicator ==
    /\ ema = <<>>
    /\ sma = <<>>
    /\ atr = <<>>
    /\ atrCandle = <<>>
NoResults == calcResults = <<>>
NoLogging ==
    /\ enabledTopics = {}
    /\ loggers = <<>>
    /\ logged = <<>>
NoService ==
    /\ strat = <<>>
    /\ fetch = <<>>
    /\ runs = <<>>
NoComponent ==
    /\ NoIndicator
    /\ NoResults
    /\ NoLogging
    /\ NoService
    /\ fed = <<>>

vars == <<runVars, componentVars>>

(* ----------------------------- account -------------------------------- *)
\* OpenTrade's switch on signal.Action: no default case, dir stays ""
DirectionOf(action) ==
    IF action = BUY THEN LONG
    ELSE IF action = SELL THEN SHORT
    ELSE ""

\* slip: stop-loss and take-profit are taken from each other's field
NewPosition_SwapsLevels(id, signal, timestamp) ==
    [ID |-> id, OpenTime |-> timestamp,
     Direction |-> DirectionOf(signal.Action),
     EntryPrice |-> signal.Price, Size |-> signal.Size,
     StopLoss |-> signal.TP, TakeProfit |-> signal.SL]

\* the position OpenTrade builds
NewPosition(id, signal, timestamp) ==
    [ID |-> id, OpenTime |-> timestamp,
     Direction |-> DirectionOf(signal.Action),
     EntryPrice |-> signal.Price, Size |-> signal.Size,
     StopLoss |-> signal.SL, TakeProfit |-> signal.TP]

\* slip: a short is realized with the formula of a long
PnLOf_ShortAsLong(pos, exitPrice) ==
    (exitPrice - pos.EntryPrice) * pos.Size

\* realized profit/loss of closePosition
PnLOf(pos, exitPrice) ==
    IF pos.Direction = LONG
    THEN (exitPrice - pos.EntryPrice) * pos.Size
    ELSE (pos.EntryPrice - exitPrice) * pos.Size

\* the Trade closePosition returns; PnLPercent = pnl / entry * 100 is kept
\* as the exact fraction <<numerator, denominator>>
TradeOf(pos, exitPrice, exitTime, reason) ==
    [ID |-> pos.ID, EntryTime |-> pos.OpenTime, ExitTime |-> exitTime,
     Direction |-> pos.Direction, EntryPrice |-> pos.EntryPrice,
     ExitPrice |-> exitPrice, Size |-> pos.Size,
     StopLoss |-> pos.StopLoss, TakeProfit |-> pos.TakeProfit,
     PnL |-> PnLOf(pos, exitPrice),
     PnLPercent |-> <<PnLOf(pos, exitPrice) * 100, pos.EntryPrice>>,
     ExitReason |-> reason]

\* closePosition on an account whose balance is bal: the new balance and
\* the trade
closePosition(bal, pos, exitPrice, exitTime, reason) ==
    [Balance |-> bal + PnLOf(pos, exitPrice),
     trade |-> TradeOf(pos, exitPrice, exitTime, reason)]

\* slip: the stop-loss needs the bar to go strictly through the level
StopLossHit_Strict(pos, bar) ==
    IF pos.Direction = LONG
    THEN bar.Low < pos.StopLoss
    ELSE bar.High > pos.StopLoss

\* the stop-loss condition of CheckExits
StopLossHit(pos, bar) ==
    IF pos.Direction = LONG
    THEN bar.Low <= pos.StopLoss
    ELSE bar.High >= pos.StopLoss

\* slip: a bar that only touches the take-profit does not trigger it
TakeProfitHit_Strict(pos, bar) ==
    IF pos.Direction = LONG
    THEN bar.High > pos.TakeProfit
    ELSE bar.Low < pos.TakeProfit

\* the take-profit condition of CheckExits
TakeProfitHit(pos, bar) ==
    IF pos.Direction = LONG
    THEN bar.High >= pos.TakeProfit
    ELSE bar.Low <= pos.TakeProfit

\* slip: the fill is taken at the bar's extreme instead of at the level
ExitsOf_AtBarExtreme(pos, bar) ==
    (IF StopLossHit(pos, bar)
     THEN <<[price |-> IF pos.Direction = LONG THEN bar.Low ELSE bar.High,
             reason |-> "STOP_LOSS"]>>
     ELSE <<>>)
    \o
    (IF TakeProfitHit(pos, bar)
     THEN <<[price |-> IF pos.Direction = LONG THEN bar.High ELSE bar.Low,
             reason |-> "TAKE_PROFIT"]>>
     ELSE <<>>)

\* slip: the take-profit check is skipped once the stop-loss has triggered
ExitsOf_FirstHitOnly(pos, bar) ==
    IF StopLossHit(pos, bar)
    THEN <<[price |-> pos.StopLoss, reason |-> "STOP_LOSS"]>>
    ELSE IF TakeProfitHit(pos, bar)
    THEN <<[price |-> pos.TakeProfit, reason |-> "TAKE_PROFIT"]>>
    ELSE <<>>

\* the closePosition calls CheckExits makes for one position, in the order
\* it makes them: the stop-loss check first, then the take-profit check,
\* neither excluding the other
ExitsOf(pos, bar) ==
    (IF StopLossHit(pos, bar)
     THEN <<[price |-> pos.StopLoss, reason |-> "STOP_LOSS"]>>
     ELSE <<>>)
    \o
    (IF TakeProfitHit(pos, bar)
     THEN <<[price |-> pos.TakeProfit, reason |-> "TAKE_PROFIT"]>>
     ELSE <<>>)

\* one iteration of the loop of CheckExits.  st carries the balance, the
\* closedTrades and remainingPositions built so far, and the closePosition
\* calls made (realized)
RECURSIVE ApplyExits(_, _, _, _)
ApplyExits(st, pos, exits, bar) ==
    IF exits = <<>> THEN st
    ELSE LET c == closePosition(st.Balance, pos, Head(exits).price,
                                bar.Timestamp, Head(exits).reason)
         IN ApplyExits([st EXCEPT !.Balance = c.Balance,
                                  !.trade = c.trade,
                                  !.realized = Append(@, c.trade)],
                       pos, Tail(exits), bar)

\* slip: a position that stays open is put in front of the remaining ones
CheckOne_Reorders(st, pos, bar) ==
    LET exits == ExitsOf(pos, bar)
        closed == exits # <<>>
        after == ApplyExits(st, pos, exits, bar)
    IN IF closed
       THEN [after EXCEPT !.closedTrades = Append(@, after.trade)]
       ELSE [st EXCEPT !.remainingPositions = <<pos>> \o @]

\* slip: a closed position is also kept among the remaining positions
CheckOne_KeepsClosed(st, pos, bar) ==
    LET exits == ExitsOf(pos, bar)
        closed == exits # <<>>
        after == ApplyExits(st, pos, exits, bar)
    IN IF closed
       THEN [after EXCEPT !.closedTrades = Append(@, after.trade),
                          !.remainingPositions = Append(@, pos)]
       ELSE [st EXCEPT !.remainingPositions = Append(@, pos)]

CheckOne(st, pos, bar) ==
    LET exits == ExitsOf(pos, bar)
        closed == exits # <<>>
        after == ApplyExits(st, pos, exits, bar)
    IN IF closed
       THEN [after EXCEPT !.closedTrades = Append(@, after.trade)]
       ELSE [st EXCEPT !.remainingPositions = Append(@, pos)]

RECURSIVE CheckExitsLoop(_, _, _)
CheckExitsLoop(st, rest, bar) ==
    IF rest = <<>> THEN st
    ELSE CheckExitsLoop(CheckOne(st, Head(rest), bar), Tail(rest), bar)

\* Account.CheckExits on an account with balance bal and open set open
CheckExits(bal, open, bar) ==
    CheckExitsLoop([Balance |-> bal, closedTrades |-> <<>>,
                    remainingPositions |-> <<>>, realized |-> <<>>,
                    trade |-> <<>>],
                   open, bar)

\* Account.CloseAll: the loop over the open set
RECURSIVE CloseAllLoop(_, _, _)
CloseAllLoop(st, rest, lastBar) ==
    IF rest = <<>> THEN st
    ELSE LET c == closePosition(st.Balance, Head(rest), lastBar.Close,
                                lastBar.Timestamp, "END_OF_BACKTEST")
         IN CloseAllLoop([st EXCEPT !.Balance = c.Balance,
                                    !.trades = Append(@, c.trade),
                                    !.realized = Append(@, c.trade)],
                         Tail(rest), lastBar)

\* slip: the positions are closed at the last bar's open
CloseAll_AtOpen(bal, open, lastBar) ==
    CloseAllLoop([Balance |-> bal, trades |-> <<>>, realized |-> <<>>],
                 open, [lastBar EXCEPT !.Close = lastBar.Open])

CloseAll(bal, open, lastBar) ==
    CloseAllLoop([Balance |-> bal, trades |-> <<>>, realized |-> <<>>],
                 open, lastBar)

\* Account.PositionCount
PositionCount == Len(openPositions)

(* ------------------------ helpers on sequences ------------------------ *)
Range(s) == {s[k] : k \in DOMAIN s}

RECURSIVE SumPnL(_)
SumPnL(trades) ==
    IF trades = <<>> THEN 0 ELSE Head(trades).PnL + SumPnL(Tail(trades))

SelectOp(s, op) == SelectSeq(s, LAMBDA e : e.op = op)

(* ------------------------- account operations ------------------------ *)
\* NewAccount(initialBalance)
NewAccount(bal) ==
    /\ Balance = bal
    /\ openPositions = <<>>
    /\ nextPositionID = 1

\* Account.CheckExits(bar): the account's new state; the call, what it saw
\* and what it returned are recorded in calls
DoCheckExits(bar) ==
    LET r == CheckExits(Balance, openPositions, bar)
    IN /\ Balance' = r.Balance
       /\ openPositions' = r.remainingPositions
       /\ closeLog' = closeLog \o r.realized
       /\ calls' = Append(calls,
             [op |-> "CheckExits", index |-> i, bar |-> bar,
              before |-> openPositions, after |-> r.remainingPositions,
              trades |-> r.closedTrades,
              balanceBefore |-> Balance, balanceAfter |-> r.Balance])
       /\ UNCHANGED nextPositionID

\* slip: the new position is put in front of the open set
DoOpenTrade_Prepends(signal, timestamp) ==
    LET pos == NewPosition(nextPositionID, signal, timestamp)
    IN /\ nextPositionID' = nextPositionID + 1
       /\ openPositions' = <<pos>> \o openPositions
       /\ calls' = Append(calls,
             [op |-> "OpenTrade", index |-> i, signal |-> signal,
              timestamp |-> timestamp, before |-> openPositions,
              balanceBefore |-> Balance, pos |-> pos])
       /\ UNCHANGED <<Balance, closeLog>>

\* slip: the ID is taken from the number of open positions
DoOpenTrade_IDFromCount(signal, timestamp) ==
    LET pos == NewPosition(Len(openPositions) + 1, signal, timestamp)
    IN /\ nextPositionID' = nextPositionID + 1
       /\ openPositions' = Append(openPositions, pos)
       /\ calls' = Append(calls,
             [op |-> "OpenTrade", index |-> i, signal |-> signal,
              timestamp |-> timestamp, before |-> openPositions,
              balanceBefore |-> Balance, pos |-> pos])
       /\ UNCHANGED <<Balance, closeLog>>

\* Account.OpenTrade(signal, timestamp)
DoOpenTrade(signal, timestamp) ==
    LET pos == NewPosition(nextPositionID, signal, timestamp)
    IN /\ nextPositionID' = nextPositionID + 1
       /\ openPositions' = Append(openPositions, pos)
       /\ calls' = Append(calls,
             [op |-> "OpenTrade", index |-> i, signal |-> signal,
              timestamp |-> timestamp, before |-> openPositions,
              balanceBefore |-> Balance, pos |-> pos])
       /\ UNCHANGED <<Balance, closeLog>>

\* slip: the open set is not cleared
DoCloseAll_KeepsOpen(lastBar) ==
    LET r == CloseAll(Balance, openPositions, lastBar)
    IN /\ Balance' = r.Balance
       /\ openPositions' = openPositions
       /\ closeLog' = closeLog \o r.realized
       /\ calls' = Append(calls,
             [op |-> "CloseAll", index |-> i, bar |-> lastBar,
              before |-> openPositions, trades |-> r.trades,
              balanceBefore |-> Balance, balanceAfter |-> r.Balance])
       /\ UNCHANGED nextPositionID

\* Account.CloseAll(lastBar)
DoCloseAll(lastBar) ==
    LET r == CloseAll(Balance, openPositions, lastBar)
    IN /\ Balance' = r.Balance
       /\ openPositions' = <<>>
       /\ closeLog' = closeLog \o r.realized
       /\ calls' = Append(calls,
             [op |-> "CloseAll", index |-> i, bar |-> lastBar,
              before |-> openPositions, trades |-> r.trades,
              balanceBefore |-> Balance, balanceAfter |-> r.Balance])
       /\ UNCHANGED nextPositionID

(* ------------------------------ engine -------------------------------- *)
\* slip: the strategy is asked, and its positions opened, before the exits
\* of the bar are settled
LoopBody_OpenFirst == <<"OnBar", "Signals", "CheckExits">>

\* slip: the strategy is asked before the exits of the bar are settled
LoopBody_OnBarFirst == <<"OnBar", "CheckExits", "Signals">>

\* the statements of the body of Run's loop, in program order
LoopBody == <<"CheckExits", "OnBar", "Signals">>

PhaseIndex(p) == CHOOSE k \in DOMAIN LoopBody : LoopBody[k] = p

\* control leaves phase p of the loop body: on to the next statement, or to
\* the next bar, or out of the loop
Advance(p) ==
    IF PhaseIndex(p) < Len(LoopBody)
    THEN /\ pc' = LoopBody[PhaseIndex(p) + 1]
         /\ i' = i
    ELSE /\ i' = i + 1
         /\ pc' = IF i + 1 < Len(bars) THEN LoopBody[1] ELSE "after"

\* NewEngine(bars, initialBalance) followed by the first statements of Run:
\* a fresh account and a Results whose InitialBalance is the literal 10000
RunInit ==
    /\ bars \in BarSeqs
    /\ initialBalance \in InitialBalances
    /\ NewAccount(initialBalance)
    /\ results = [InitialBalance |-> 10000, FinalBalance |-> 0,
                  Trades |-> <<>>]
    /\ i = 0
    /\ signals = <<>>
    /\ pc = IF bars = <<>> THEN "after" ELSE LoopBody[1]
    /\ emitted = 0
    /\ calls = <<>>
    /\ closeLog = <<>>
    /\ NoComponent

\* an account on its own, to be called directly: NewAccount(initialBalance)
AccountInit ==
    /\ bars = <<>>
    /\ initialBalance \in InitialBalances
    /\ NewAccount(initialBalance)
    /\ results = [InitialBalance |-> 0, FinalBalance |-> 0, Trades |-> <<>>]
    /\ i = 0
    /\ signals = <<>>
    /\ pc = "account"
    /\ emitted = 0
    /\ calls = <<>>
    /\ closeLog = <<>>
    /\ NoComponent

Init == RunInit \/ AccountInit

\* closedTrades := acc.CheckExits(bar);
\* results.Trades = append(results.Trades, closedTrades...)
CheckExitsStep ==
    /\ pc = "CheckExits"
    /\ DoCheckExits(bars[i + 1])
    /\ results' = [results EXCEPT !.Trades =
                     @ \o CheckExits(Balance, openPositions,
                                     bars[i + 1]).closedTrades]
    /\ Advance("CheckExits")
    /\ UNCHANGED <<bars, initialBalance, signals, emitted>>
    /\ UNCHANGED componentVars

\* signals := strategy.OnBar(e.Bars, i, acc): the strategy is any function
\* of what it is given; what it could observe of the account is recorded
OnBarStep ==
    /\ pc = "OnBar"
    /\ \E sigs \in SignalLists(MaxSignals - emitted) :
         /\ signals' = sigs
         /\ emitted' = emitted + Len(sigs)
         /\ calls' = Append(calls,
               [op |-> "OnBar", index |-> i, signals |-> sigs,
                seenBalance |-> Balance, seenOpen |-> openPositions,
                recorded |-> Len(results.Trades)])
    /\ Advance("OnBar")
    /\ UNCHANGED <<Balance, openPositions, nextPositionID, bars,
                   initialBalance, results, closeLog>>
    /\ UNCHANGED componentVars

\* for _, signal := range signals: a signal of type OPEN_TRADE
OpenTradeStep ==
    /\ pc = "Signals"
    /\ signals # <<>>
    /\ Head(signals).Type = OPEN_TRADE
    /\ DoOpenTrade(Head(signals), bars[i + 1].Timestamp)
    /\ signals' = Tail(signals)
    /\ UNCHANGED <<bars, initialBalance, results, i, pc, emitted>>
    /\ UNCHANGED componentVars

\* slip: the type of the signal is not looked at
IgnoreSignalStep_Opens ==
    /\ pc = "Signals"
    /\ signals # <<>>
    /\ Head(signals).Type # OPEN_TRADE
    /\ DoOpenTrade(Head(signals), bars[i + 1].Timestamp)
    /\ signals' = Tail(signals)
    /\ UNCHANGED <<bars, initialBalance, results, i, pc, emitted>>
    /\ UNCHANGED componentVars

\* for _, signal := range signals: a signal of any other type
IgnoreSignalStep ==
    /\ pc = "Signals"
    /\ signals # <<>>
    /\ Head(signals).Type # OPEN_TRADE
    /\ signals' = Tail(signals)
    /\ calls' = Append(calls, [op |-> "Ignore", index |-> i,
                               signal |-> Head(signals)])
    /\ UNCHANGED <<Balance, openPositions, nextPositionID, bars,
                   initialBalance, results, i, pc, emitted, closeLog>>
    /\ UNCHANGED componentVars

\* the range over signals is exhausted
SignalsDoneStep ==
    /\ pc = "Signals"
    /\ signals = <<>>
    /\ Advance("Signals")
    /\ UNCHANGED <<Balance, openPositions, nextPositionID, bars,
                   initialBalance, results, signals, emitted, calls,
                   closeLog>>
    /\ UNCHANGED componentVars

\* slip: the trades of CloseAll are put in front of the recorded trades
CloseAllStep_Prepends ==
    /\ pc = "after"
    /\ Len(bars) > 0
    /\ DoCloseAll(bars[Len(bars)])
    /\ results' = [results EXCEPT !.Trades =
                     CloseAll(Balance, openPositions,
                              bars[Len(bars)]).trades \o @]
    /\ pc' = "final"
    /\ UNCHANGED <<bars, initialBalance, i, signals, emitted>>
    /\ UNCHANGED componentVars

\* after the loop, len(e.Bars) > 0: CloseAll(lastBar) and the append of
\* its trades
CloseAllStep ==
    /\ pc = "after"
    /\ Len(bars) > 0
    /\ DoCloseAll(bars[Len(bars)])
    /\ results' = [results EXCEPT !.Trades =
                     @ \o CloseAll(Balance, openPositions,
                                   bars[Len(bars)]).trades]
    /\ pc' = "final"
    /\ UNCHANGED <<bars, initialBalance, i, signals, emitted>>
    /\ UNCHANGED componentVars

\* slip: CloseAll is called without the test for a last bar, on the zero Bar
SkipCloseAllStep_ClosesAnyway ==
    /\ pc = "after"
    /\ Len(bars) = 0
    /\ DoCloseAll([Timestamp |-> 0, Open |-> 0, High |-> 0, Low |-> 0,
                   Close |-> 0])
    /\ pc' = "final"
    /\ UNCHANGED <<bars, initialBalance, results, i, signals, emitted>>
    /\ UNCHANGED componentVars

\* after the loop, len(e.Bars) = 0: nothing to close
SkipCloseAllStep ==
    /\ pc = "after"
    /\ Len(bars) = 0
    /\ pc' = "final"
    /\ UNCHANGED <<Balance, openPositions, nextPositionID, bars,
                   initialBalance, results, i, signals, emitted, calls,
                   closeLog>>
    /\ UNCHANGED componentVars

\* results.FinalBalance = acc.Balance; return results
ReturnStep ==
    /\ pc = "final"
    /\ results' = [results EXCEPT !.FinalBalance = Balance]
    /\ pc' = "done"
    /\ UNCHANGED <<Balance, openPositions, nextPositionID, bars,
                   initialBalance, i, signals, emitted, calls, closeLog>>
    /\ UNCHANGED componentVars

(* ------------------- direct calls on an account ----------------------- *)
\* the timestamp handed to the next direct call
CallTime == TimeOf(Len(calls) + 1)

AccountOpenTrade ==
    /\ pc = "account"
    /\ Len(calls) < MaxCalls
    /\ \E signal \in Signals : DoOpenTrade(signal, CallTime)
    /\ UNCHANGED <<bars, initialBalance, results, i, signals, pc, emitted>>
    /\ UNCHANGED componentVars

AccountCheckExits ==
    /\ pc = "account"
    /\ Len(calls) < MaxCalls
    /\ \E shape \in BarShapes : DoCheckExits(Bar(shape, Len(calls) + 1))
    /\ UNCHANGED <<bars, initialBalance, results, i, signals, pc, emitted>>
    /\ UNCHANGED componentVars

AccountCloseAll ==
    /\ pc = "account"
    /\ Len(calls) < MaxCalls
    /\ \E shape \in BarShapes : DoCloseAll(Bar(shape, Len(calls) + 1))
    /\ UNCHANGED <<bars, initialBalance, results, i, signals, pc, emitted>>
    /\ UNCHANGED componentVars

Next ==
    \/ CheckExitsStep
    \/ OnBarStep
    \/ OpenTradeStep
    \/ IgnoreSignalStep
    \/ SignalsDoneStep
    \/ CloseAllStep
    \/ SkipCloseAllStep
    \/ ReturnStep
    \/ AccountOpenTrade
    \/ AccountCheckExits
    \/ AccountCloseAll

Spec == Init /\ [][Next]_vars

(* ------------------- the engine test's strategy ----------------------- *)
\* the longest bar sequence the test strategy is run on; the engine test
\* has four bars
MaxScenarioBars == 4

\* the bars of TestEngine_RunAndCanOpenAndCloseTrades have High = Low =
\* Close at 100, 105, 110, 120; Run and the account read no Open, which is
\* set to the close here (the test's opens are 100, 100, 99.5 and 101).
\* One bar with a wide range is added to them.
ScenarioShapes ==
    {[Open |-> c, High |-> c, Low |-> c, Close |-> c] :
        c \in {100, 105, 110, 120}}
    \cup {[Open |-> 110, High |-> 130, Low |-> 50, Close |-> 110]}

ScenarioBarSeqs ==
    UNION {{[k \in 1..n |-> Bar(f[k], k)] : f \in [1..n -> ScenarioShapes]} :
           n \in 0..MaxScenarioBars}

\* TestStrategy.OnBar: a BUY on the first bar with a take-profit 5 above the
\* close, a SELL on the second bar with stop and target far away, nothing
\* afterwards
TestStrategyOnBar(bs, currentIndex) ==
    LET bar == bs[currentIndex + 1]
    IN IF currentIndex = 0
       THEN <<[Type |-> OPEN_TRADE, Action |-> BUY, Price |-> bar.Close,
               TP |-> bar.Close + 5, SL |-> bar.Close - 50, Size |-> 1]>>
       ELSE IF currentIndex = 1
       THEN <<[Type |-> OPEN_TRADE, Action |-> SELL, Price |-> bar.Close,
               TP |-> bar.Close - 50, SL |-> bar.Close + 100, Size |-> 1]>>
       ELSE <<>>

\* signals := strategy.OnBar(e.Bars, i, acc) with strategy = &TestStrategy{}
TestOnBarStep ==
    /\ pc = "OnBar"
    /\ signals' = TestStrategyOnBar(bars, i)
    /\ calls' = Append(calls,
          [op |-> "OnBar", index |-> i,
           signals |-> TestStrategyOnBar(bars, i),
           seenBalance |-> Balance, seenOpen |-> openPositions,
           recorded |-> Len(results.Trades)])
    /\ Advance("OnBar")
    /\ UNCHANGED <<Balance, openPositions, nextPositionID, bars,
                   initialBalance, results, closeLog, emitted>>
    /\ UNCHANGED componentVars

\* engine := NewEngine(bars, initialBalance); engine.Run(&TestStrategy{})
ScenarioInit ==
    /\ bars \in ScenarioBarSeqs
    /\ initialBalance \in InitialBalances
    /\ NewAccount(initialBalance)
    /\ results = [InitialBalance |-> 10000, FinalBalance |-> 0,
                  Trades |-> <<>>]
    /\ i = 0
    /\ signals = <<>>
    /\ pc = IF bars = <<>> THEN "after" ELSE LoopBody[1]
    /\ emitted = 0
    /\ calls = <<>>
    /\ closeLog = <<>>
    /\ NoComponent

ScenarioNext ==
    \/ CheckExitsStep
    \/ TestOnBarStep
    \/ OpenTradeStep
    \/ SignalsDoneStep
    \/ CloseAllStep
    \/ SkipCloseAllStep
    \/ ReturnStep

ScenarioSpec == ScenarioInit /\ [][ScenarioNext]_vars

(* ----------------------------- indicators ----------------------------- *)
\* the number of Update calls made on one indicator
MaxUpdates == 4

\* the periods the indicators are built with and the prices they are fed
Periods == {1, 2, 3}
Prices == {10, 20, 25}

\* a float64 is modelled by the exact fraction <<numerator, denominator>>
\* in lowest terms with a positive denominator; rounding is left out.
\* <<1, 0>>, <<-1, 0>> and <<0, 0>> stand for +Inf, -Inf and NaN
RECURSIVE GCD(_, _)
GCD(a, b) == IF b = 0 THEN a ELSE GCD(b, a % b)
Abs(n) == IF n < 0 THEN -n ELSE n
Norm(f) ==
    LET n == IF f[2] < 0 THEN -f[1] ELSE f[1]
        d == Abs(f[2])
        g == GCD(Abs(n), d)
    IN IF d = 0
       THEN <<(IF n > 0 THEN 1 ELSE IF n < 0 THEN -1 ELSE 0), 0>>
       ELSE <<n \div g, d \div g>>
FracOf(n) == <<n, 1>>
FracAdd(a, b) ==
    IF a[2] = 0 /\ b[2] = 0 THEN (IF a = b THEN a ELSE <<0, 0>>)
    ELSE Norm(<<a[1] * b[2] + b[1] * a[2], a[2] * b[2]>>)
FracSub(a, b) == FracAdd(a, <<-b[1], b[2]>>)
FracMul(a, b) == Norm(<<a[1] * b[1], a[2] * b[2]>>)

\* slip: alpha is 2 / period
NewEMA_AlphaOverPeriod(period) ==
    [period |-> period, value |-> FracOf(0), alpha |-> Norm(<<2, period>>),
     init |-> FALSE]

\* NewEMA(period): alpha = 2.0 / float64(period + 1), value and init zero
NewEMA(period) ==
    [period |-> period, value |-> FracOf(0),
     alpha |-> Norm(<<2, period + 1>>), init |-> FALSE]

\* EMA.Update(price), as the EMA it leaves
EMAUpdated(e, price) ==
    IF ~e.init
    THEN [e EXCEPT !.value = FracOf(price), !.init = TRUE]
    ELSE [e EXCEPT !.value =
             FracAdd(FracMul(FracOf(price), e.alpha),
                     FracMul(e.value, FracSub(FracOf(1), e.alpha)))]

\* EMA.Value() and EMA.Ready()
EMAValue(e) == e.value
EMAReady(e) == e.init

\* no engine is running while an indicator is exercised
RunIdle ==
    /\ bars = <<>>
    /\ initialBalance = 0
    /\ NewAccount(0)
    /\ results = [InitialBalance |-> 0, FinalBalance |-> 0, Trades |-> <<>>]
    /\ i = 0
    /\ signals = <<>>
    /\ pc = "indicator"
    /\ emitted = 0
    /\ calls = <<>>
    /\ closeLog = <<>>

\* ema := NewEMA(period)
EMAInit ==
    /\ RunIdle
    /\ NoService
    /\ \E period \in Periods : ema = NewEMA(period)
    /\ sma = <<>>
    /\ atr = <<>>
    /\ atrCandle = <<>>
    /\ NoResults
    /\ NoLogging
    /\ fed = <<>>

\* ema.Update(price)
EMAUpdate(price) ==
    /\ Len(fed) < MaxUpdates
    /\ ema' = EMAUpdated(ema, price)
    /\ fed' = Append(fed, price)
    /\ UNCHANGED <<runVars, serviceVars, sma, atr, atrCandle, calcResults,
                   loggingVars>>

EMANext == \E price \in Prices : EMAUpdate(price)

EMASpec == EMAInit /\ [][EMANext]_vars

\* the prices the SMA is fed
SMAPrices == {1, 2, 3}

\* the sum of a sequence of numbers
RECURSIVE SumSeq(_)
SumSeq(seq) == IF seq = <<>> THEN 0 ELSE Head(seq) + SumSeq(Tail(seq))

\* NewSMA(period): an empty window with capacity period
NewSMA(period) == [period |-> period, values |-> <<>>]

\* slip: the oldest price is dropped as soon as the window is full
SMAUpdated_DropsWhenFull(s, price) ==
    LET values == Append(s.values, price)
    IN [s EXCEPT !.values =
           IF Len(values) >= s.period THEN Tail(values) ELSE values]

\* SMA.Update(price), as the SMA it leaves: append, then drop the oldest
\* price if the window is longer than period
SMAUpdated(s, price) ==
    LET values == Append(s.values, price)
    IN [s EXCEPT !.values =
           IF Len(values) > s.period THEN Tail(values) ELSE values]

\* SMA.Value(): the mean of the window, 0 if it is empty
SMAValue(s) ==
    IF Len(s.values) = 0 THEN FracOf(0)
    ELSE Norm(<<SumSeq(s.values), Len(s.values)>>)

\* SMA.Ready()
SMAReady(s) == Len(s.values) >= s.period

\* sma := NewSMA(period)
SMAInit ==
    /\ RunIdle
    /\ NoService
    /\ \E period \in Periods : sma = NewSMA(period)
    /\ ema = <<>>
    /\ atr = <<>>
    /\ atrCandle = <<>>
    /\ NoResults
    /\ NoLogging
    /\ fed = <<>>

\* sma.Update(price)
SMAUpdate(price) ==
    /\ Len(fed) < MaxUpdates
    /\ sma' = SMAUpdated(sma, price)
    /\ fed' = Append(fed, price)
    /\ UNCHANGED <<runVars, serviceVars, ema, atr, atrCandle, calcResults,
                   loggingVars>>

SMANext == \E price \in SMAPrices : SMAUpdate(price)

SMASpec == SMAInit /\ [][SMANext]_vars

\* the bars the ATR indicators are fed: a small candle, a large rising one,
\* a large falling one, and a small candle far below the others
CandleShapes ==
    {[Open |-> 10, High |-> 12, Low |-> 9, Close |-> 11],
     [Open |-> 11, High |-> 20, Low |-> 11, Close |-> 19],
     [Open |-> 19, High |-> 19, Low |-> 5, Close |-> 6],
     [Open |-> 2, High |-> 3, Low |-> 2, Close |-> 2]}

\* math.Max on two numbers
Max(a, b) == IF a >= b THEN a ELSE b

\* the true range ATR.Update computes for bar against prevBar
TrueRangeOf(bar, prevBar) ==
    LET tr1 == bar.High - bar.Low
        tr2 == Abs(bar.High - prevBar.Close)
        tr3 == Abs(bar.Low - prevBar.Close)
    IN Max(tr1, Max(tr2, tr3))

\* NewATR(period); prevBar is <<>> for nil and <<bar>> otherwise
NewATR(period) ==
    [period |-> period, ema |-> NewEMA(period), prevBar |-> <<>>,
     ready |-> FALSE, warmup |-> 0]

\* slip: the first bar is counted as a sample of the warmup
ATRUpdated_CountsFirstBar(a, bar) ==
    IF a.prevBar = <<>>
    THEN [a EXCEPT !.prevBar = <<bar>>, !.warmup = @ + 1,
                   !.ready = IF a.warmup + 1 >= a.period THEN TRUE ELSE @]
    ELSE [a EXCEPT !.ema = EMAUpdated(@, TrueRangeOf(bar, a.prevBar[1])),
                   !.prevBar = <<bar>>,
                   !.warmup = @ + 1,
                   !.ready = IF a.warmup + 1 >= a.period THEN TRUE ELSE @]

\* ATR.Update(bar), as the ATR it leaves
ATRUpdated(a, bar) ==
    IF a.prevBar = <<>>
    THEN [a EXCEPT !.prevBar = <<bar>>]
    ELSE [a EXCEPT !.ema = EMAUpdated(@, TrueRangeOf(bar, a.prevBar[1])),
                   !.prevBar = <<bar>>,
                   !.warmup = @ + 1,
                   !.ready = IF a.warmup + 1 >= a.period THEN TRUE ELSE @]

\* ATR.Value() and ATR.Ready()
ATRValue(a) == EMAValue(a.ema)
ATRReady(a) == a.ready

\* atr := NewATR(period)
ATRInit ==
    /\ RunIdle
    /\ NoService
    /\ \E period \in Periods : atr = NewATR(period)
    /\ ema = <<>>
    /\ sma = <<>>
    /\ atrCandle = <<>>
    /\ NoResults
    /\ NoLogging
    /\ fed = <<>>

\* atr.Update(bar)
ATRUpdate(bar) ==
    /\ Len(fed) < MaxUpdates
    /\ atr' = ATRUpdated(atr, bar)
    /\ fed' = Append(fed, bar)
    /\ UNCHANGED <<runVars, serviceVars,
                   ema, sma, atrCandle, calcResults, loggingVars>>

ATRNext == \E shape \in CandleShapes : ATRUpdate(Bar(shape, Len(fed) + 1))

ATRSpec == ATRInit /\ [][ATRNext]_vars

\* the atrMultiplier and relativeSize values an ATRCandle is built with,
\* as fractions: 0.5 and 1, and 2
Multipliers == {<<1, 2>>, <<1, 1>>}
RelativeSizes == {<<2, 1>>}

\* NewATRCandle(atrPeriod, atrMultiplier, relativeSize, withRelativeSize);
\* the ATR it points to is the variable atr
NewATRCandle(atrPeriod, atrMultiplier, relativeSize, withRelativeSize) ==
    [atrPeriod |-> atrPeriod, atrMultiplier |-> atrMultiplier,
     withRelativeSize |-> withRelativeSize, relativeSize |-> relativeSize,
     prevBar |-> <<>>, violationCount |-> 0]

\* a > b for a number a and a fraction b
GreaterThanFrac(a, b) == a * b[2] > b[1]

\* slip: the comparison with the previous candle is made in both modes
checkViolation_IgnoresMode(c, a, currentBar) ==
    LET absDiff == Abs(currentBar.Close - currentBar.Open)
        atrThreshold == FracMul(ATRValue(a), c.atrMultiplier)
        atrViolation == GreaterThanFrac(absDiff, atrThreshold)
    IN IF c.prevBar = <<>> THEN atrViolation
       ELSE LET prevAbsDiff == Abs(c.prevBar[1].Close - c.prevBar[1].Open)
                relativeThreshold ==
                    FracMul(FracOf(prevAbsDiff), c.relativeSize)
                isEngulfing == GreaterThanFrac(absDiff, relativeThreshold)
            IN atrViolation /\ isEngulfing

\* ATRCandle.checkViolation(currentBar) of the candle c whose ATR is a
checkViolation(c, a, currentBar) ==
    LET absDiff == Abs(currentBar.Close - currentBar.Open)
        atrThreshold == FracMul(ATRValue(a), c.atrMultiplier)
        atrViolation == GreaterThanFrac(absDiff, atrThreshold)
    IN IF c.prevBar = <<>> THEN atrViolation
       ELSE IF ~c.withRelativeSize THEN atrViolation
       ELSE LET prevAbsDiff == Abs(c.prevBar[1].Close - c.prevBar[1].Open)
                relativeThreshold ==
                    FracMul(FracOf(prevAbsDiff), c.relativeSize)
                isEngulfing == GreaterThanFrac(absDiff, relativeThreshold)
            IN atrViolation /\ isEngulfing

\* slip: the bar is not kept as the previous bar
ATRCandleUpdated_ForgetsPrevBar(c, a, bar) ==
    [c EXCEPT !.violationCount =
                 IF ATRReady(a) /\ checkViolation(c, a, bar)
                 THEN @ + 1 ELSE @]

\* ATRCandle.Update(bar) after a.atr.Update(bar) has left the ATR a: the
\* counter is only ever incremented
ATRCandleUpdated(c, a, bar) ==
    [c EXCEPT !.violationCount =
                 IF ATRReady(a) /\ checkViolation(c, a, bar)
                 THEN @ + 1 ELSE @,
              !.prevBar = <<bar>>]

\* ATRCandle.Value() (1.0 or 0.0) and ATRCandle.LastViolation()
ATRCandleValue(c) == IF c.violationCount > 0 THEN 1 ELSE 0
LastViolation(c) == c.violationCount > 0

\* slip: only the previous bar is asked for
ATRCandleReady_PrevBarOnly(c, a) == c.prevBar # <<>>

\* ATRCandle.Ready() and ATRCandle.RequiredPeriods()
ATRCandleReady(c, a) == ATRReady(a) /\ c.prevBar # <<>>
RequiredPeriods(c) == c.atrPeriod + 1

\* candle := NewATRCandle(atrPeriod, atrMultiplier, relativeSize,
\*                        withRelativeSize)
ATRCandleInit ==
    /\ RunIdle
    /\ NoService
    /\ \E period \in Periods, mult \in Multipliers,
          rel \in RelativeSizes, with \in BOOLEAN :
         /\ atrCandle = NewATRCandle(period, mult, rel, with)
         /\ atr = NewATR(period)
    /\ ema = <<>>
    /\ sma = <<>>
    /\ NoResults
    /\ NoLogging
    /\ fed = <<>>

\* candle.Update(bar)
ATRCandleUpdate(bar) ==
    /\ Len(fed) < MaxUpdates
    /\ atr' = ATRUpdated(atr, bar)
    /\ atrCandle' = ATRCandleUpdated(atrCandle, ATRUpdated(atr, bar), bar)
    /\ fed' = Append(fed, bar)
    /\ UNCHANGED <<runVars, serviceVars, ema, sma, calcResults, loggingVars>>

ATRCandleNext ==
    \E shape \in CandleShapes : ATRCandleUpdate(Bar(shape, Len(fed) + 1))

ATRCandleSpec == ATRCandleInit /\ [][ATRCandleNext]_vars

\* the periods an ATRCandle may be built with, the zero and negative ones
\* included: NewATRCandle checks nothing
AnyPeriods == Periods \cup {0, -1, -2}

\* candle := NewATRCandle(atrPeriod, ...) for any atrPeriod
ATRCandleAnyInit ==
    /\ RunIdle
    /\ NoService
    /\ \E period \in AnyPeriods, mult \in Multipliers,
          rel \in RelativeSizes, with \in BOOLEAN :
         /\ atrCandle = NewATRCandle(period, mult, rel, with)
         /\ atr = NewATR(period)
    /\ ema = <<>>
    /\ sma = <<>>
    /\ NoResults
    /\ NoLogging
    /\ fed = <<>>

ATRCandleAnySpec == ATRCandleAnyInit /\ [][ATRCandleNext]_vars

(* ----------------------------- statistics ----------------------------- *)
\* the longest trade list Calculate is given and the number of calls of
\* Calculate on one Results
MaxTrades == 3
MaxCalculations == 2

\* Results.InitialBalance: what Run writes, a small balance, and the zero
\* value of the field
StatsInitialBalances == {10000, 100, 0}

\* FinalBalance - InitialBalance minus the sum of the trades' PnL: 0, and
\* the amount of a closure that changed the balance without a trade
BalanceDrifts == {0, 20}

\* the account.Trade values of a trade list, with the fields Calculate
\* reads: a loss, a trade at break-even, and a win
StatTrades ==
    {[EntryTime |-> 10, ExitTime |-> 25, PnL |-> -50],
     [EntryTime |-> 10, ExitTime |-> 10, PnL |-> 0],
     [EntryTime |-> 20, ExitTime |-> 40, PnL |-> 100]}

StatTradeLists ==
    UNION {[1..n -> StatTrades] : n \in 0..MaxTrades}

\* float64 division n / d: a fraction in lowest terms, and <<1, 0>>,
\* <<-1, 0>>, <<0, 0>> for +Inf, -Inf and NaN when d is 0
Quotient(n, d) ==
    IF d = 0 THEN <<(IF n > 0 THEN 1 ELSE IF n < 0 THEN -1 ELSE 0), 0>>
    ELSE IF d < 0 THEN Norm(<<-n, -d>>)
    ELSE Norm(<<n, d>>)
\* f * 100
Times100(f) == IF f[2] = 0 THEN f ELSE Norm(<<f[1] * 100, f[2]>>)

\* the zero value of Statistics with TotalTrades set
NewStatistics(totalTrades) ==
    [TotalTrades |-> totalTrades, WinningTrades |-> 0, LosingTrades |-> 0,
     WinRate |-> FracOf(0), TotalPnL |-> 0, TotalPnLPercent |-> FracOf(0),
     GrossProfit |-> 0, GrossLoss |-> 0, ProfitFactor |-> FracOf(0),
     AvgWin |-> FracOf(0), AvgLoss |-> FracOf(0),
     ExpectedValue |-> FracOf(0), MaxDrawdown |-> 0,
     MaxDrawdownPercent |-> FracOf(0), AvgTradeDuration |-> 0]

RECURSIVE ReplayTrades(_, _)
\* the loop of Calculate over r.Trades
ReplayTrades(st, trades) ==
    IF trades = <<>> THEN st
    ELSE LET trade == Head(trades)
             runningBalance == st.runningBalance + trade.PnL
             peak == IF runningBalance > st.peak THEN runningBalance
                     ELSE st.peak
             dd == peak - runningBalance
         IN ReplayTrades(
              [WinningTrades |-> st.WinningTrades
                                  + (IF trade.PnL > 0 THEN 1 ELSE 0),
               LosingTrades |-> st.LosingTrades
                                  + (IF trade.PnL < 0 THEN 1 ELSE 0),
               totalWin |-> st.totalWin
                              + (IF trade.PnL > 0 THEN trade.PnL ELSE 0),
               totalLoss |-> st.totalLoss
                              + (IF trade.PnL < 0 THEN trade.PnL ELSE 0),
               totalDuration |-> st.totalDuration
                                   + (trade.ExitTime - trade.EntryTime),
               peak |-> peak,
               maxDD |-> IF dd > st.maxDD THEN dd ELSE st.maxDD,
               runningBalance |-> runningBalance],
              Tail(trades))

\* slip: no early return for an empty trade list
ComputeStatistics_NoEarlyReturn(res) ==
    LET n == Len(res.Trades)
        st == ReplayTrades(
                [WinningTrades |-> 0, LosingTrades |-> 0, totalWin |-> 0,
                 totalLoss |-> 0, totalDuration |-> 0,
                 peak |-> res.InitialBalance, maxDD |-> 0,
                 runningBalance |-> res.InitialBalance], res.Trades)
        TotalPnL == res.FinalBalance - res.InitialBalance
    IN [NewStatistics(n) EXCEPT
          !.WinningTrades = st.WinningTrades,
          !.LosingTrades = st.LosingTrades,
          !.WinRate = Times100(Quotient(st.WinningTrades, n)),
          !.GrossProfit = st.totalWin,
          !.GrossLoss = st.totalLoss,
          !.TotalPnL = TotalPnL,
          !.TotalPnLPercent =
              Times100(Quotient(TotalPnL, res.InitialBalance)),
          !.ExpectedValue = Quotient(TotalPnL, n),
          !.MaxDrawdown = st.maxDD]

\* the Statistics Calculate computes when nothing is cached
ComputeStatistics(res) ==
    LET n == Len(res.Trades)
        st == ReplayTrades(
                [WinningTrades |-> 0, LosingTrades |-> 0, totalWin |-> 0,
                 totalLoss |-> 0, totalDuration |-> 0,
                 peak |-> res.InitialBalance, maxDD |-> 0,
                 runningBalance |-> res.InitialBalance], res.Trades)
        TotalPnL == res.FinalBalance - res.InitialBalance
    IN IF n = 0 THEN NewStatistics(n)
       ELSE [NewStatistics(n) EXCEPT
               !.WinningTrades = st.WinningTrades,
               !.LosingTrades = st.LosingTrades,
               !.WinRate = Times100(Quotient(st.WinningTrades, n)),
               !.GrossProfit = st.totalWin,
               !.GrossLoss = st.totalLoss,
               !.TotalPnL = TotalPnL,
               !.TotalPnLPercent =
                   Times100(Quotient(TotalPnL, res.InitialBalance)),
               !.ProfitFactor =
                   IF st.totalLoss # 0
                   THEN Quotient(st.totalWin, -st.totalLoss) ELSE @,
               !.AvgWin =
                   IF st.WinningTrades > 0
                   THEN Quotient(st.totalWin, st.WinningTrades) ELSE @,
               !.AvgLoss =
                   IF st.LosingTrades > 0
                   THEN Quotient(st.totalLoss, st.LosingTrades) ELSE @,
               !.ExpectedValue = Quotient(TotalPnL, n),
               !.MaxDrawdown = st.maxDD,
               !.MaxDrawdownPercent =
                   IF st.peak > 0
                   THEN Times100(Quotient(st.maxDD, st.peak)) ELSE @,
               !.AvgTradeDuration = st.totalDuration \div n]

\* slip: the statistics of an empty trade list are returned but not kept
Calculate_EmptyNotCached(res) ==
    IF res.stats # <<>>
    THEN [returned |-> res.stats[1], cached |-> TRUE, r |-> res]
    ELSE [returned |-> ComputeStatistics(res), cached |-> FALSE,
          r |-> IF res.Trades = <<>> THEN res
                ELSE [res EXCEPT !.stats = <<ComputeStatistics(res)>>]]

\* r.Calculate(): what it returns, whether it came from r.stats, and the
\* Results it leaves; stats is <<>> for nil
Calculate(res) ==
    IF res.stats # <<>>
    THEN [returned |-> res.stats[1], cached |-> TRUE, r |-> res]
    ELSE [returned |-> ComputeStatistics(res), cached |-> FALSE,
          r |-> [res EXCEPT !.stats = <<ComputeStatistics(res)>>]]

\* a Results as Run returns it, before any Calculate
StatsInit ==
    /\ RunIdle
    /\ NoService
    /\ NoIndicator
    /\ NoLogging
    /\ \E initial \in StatsInitialBalances, trades \in StatTradeLists,
          drift \in BalanceDrifts :
         calcResults =
            [InitialBalance |-> initial,
             FinalBalance |-> initial + SumPnL(trades) + drift,
             Trades |-> trades, stats |-> <<>>]
    /\ fed = <<>>

\* stats := r.Calculate()
CalculateCall ==
    /\ Len(fed) < MaxCalculations
    /\ calcResults' = Calculate(calcResults).r
    /\ fed' = Append(fed, [seen |-> calcResults,
                           returned |-> Calculate(calcResults).returned,
                           cached |-> Calculate(calcResults).cached])
    /\ UNCHANGED <<runVars, serviceVars, indicatorVars, loggingVars>>

\* r.Trades = append(r.Trades, trade), by the owner of the Results
AppendTrade(trade) ==
    /\ Len(calcResults.Trades) < MaxTrades
    /\ calcResults' = [calcResults EXCEPT !.Trades = Append(@, trade)]
    /\ UNCHANGED <<runVars, serviceVars, indicatorVars, loggingVars, fed>>

\* r.FinalBalance = balance, by the owner of the Results
SetFinalBalance(balance) ==
    /\ balance # calcResults.FinalBalance
    /\ calcResults' = [calcResults EXCEPT !.FinalBalance = balance]
    /\ UNCHANGED <<runVars, serviceVars, indicatorVars, loggingVars, fed>>

StatsNext ==
    \/ CalculateCall
    \/ \E trade \in StatTrades : AppendTrade(trade)
    \/ \E drift \in BalanceDrifts :
         SetFinalBalance(calcResults.InitialBalance
                           + SumPnL(calcResults.Trades) + drift)

StatsSpec == StatsInit /\ [][StatsNext]_vars

(* ------------------------------ logging ------------------------------- *)
\* the number of Loggers created and of Debug/Info/Warn calls made
MaxLoggers == 2
MaxLogCalls == 2

\* the topics Loggers are created for
Topics == {"atr", "sma"}

\* DEBUG_TOPICS, as the sequence of its comma-separated parts after
\* TrimSpace; <<>> is the unset or empty variable
DebugTopicsValues ==
    {<<>>, <<"all">>, <<"atr", "", "sma">>}

\* the maps the tests assign to enabledTopics, as the set of keys mapped to
\* true
TestTopicSets == {{"atr"}, {"*"}, {}}

\* init(): enabledTopics after DEBUG_TOPICS has been read
TopicsFromEnv(parts) ==
    IF parts = <<>> THEN {}
    ELSE IF parts = <<"all">> THEN {"*"}
    ELSE {parts[k] : k \in {j \in DOMAIN parts : parts[j] # ""}}

\* slip: the wildcard is not looked at
NewLogger_IgnoresWildcard(topic, topics) ==
    [topic |-> topic, enabled |-> topic \in topics]

\* New(topic) with enabledTopics = topics
NewLogger(topic, topics) ==
    [topic |-> topic, enabled |-> "*" \in topics \/ topic \in topics]

\* Logger.Enabled()
LoggerEnabled(l) == l.enabled

\* Logger.Debug, Info and Warn: the records handed to slog after the call
Logged(out, l, level, k) ==
    IF ~l.enabled THEN out
    ELSE Append(out, [level |-> level, topic |-> l.topic, logger |-> k])

\* the package after init()
LoggingInit ==
    /\ RunIdle
    /\ NoService
    /\ NoIndicator
    /\ NoResults
    /\ \E parts \in DebugTopicsValues : enabledTopics = TopicsFromEnv(parts)
    /\ loggers = <<>>
    /\ logged = <<>>
    /\ fed = <<>>

\* enabledTopics = map[string]bool{...}, as the tests of the package do
SetTopics(topics) ==
    /\ topics # enabledTopics
    /\ enabledTopics' = topics
    /\ UNCHANGED <<runVars, serviceVars,
                   indicatorVars, calcResults, loggers, logged,
                   fed>>

\* l := New(topic)
NewLoggerCall(topic) ==
    /\ Len(loggers) < MaxLoggers
    /\ loggers' = Append(loggers, NewLogger(topic, enabledTopics))
    /\ fed' = Append(fed, [op |-> "New", topic |-> topic,
                           topics |-> enabledTopics])
    /\ UNCHANGED <<runVars, serviceVars,
                   indicatorVars, calcResults, enabledTopics,
                   logged>>

\* loggers[k].Debug(...), .Info(...) or .Warn(...)
LogCall(k, level) ==
    /\ Cardinality({j \in DOMAIN fed : fed[j].op = "Log"}) < MaxLogCalls
    /\ logged' = Logged(logged, loggers[k], level, k)
    /\ fed' = Append(fed, [op |-> "Log", logger |-> k, level |-> level])
    /\ UNCHANGED <<runVars, serviceVars,
                   indicatorVars, calcResults, enabledTopics,
                   loggers>>

LoggingNext ==
    \/ \E topics \in TestTopicSets : SetTopics(topics)
    \/ \E topic \in Topics : NewLoggerCall(topic)
    \/ \E k \in DOMAIN loggers, level \in {"DEBUG", "INFO", "WARN"} :
         LogCall(k, level)

LoggingSpec == LoggingInit /\ [][LoggingNext]_vars

(* -------------------------- strategy helpers -------------------------- *)
\* the number of OpenLong/OpenShort calls made on one strategy
MaxSignalCalls == 2

\* oanda.NAS100 and oanda.GBPUSD, and a symbol oanda does not name
NAS100 == "NAS100_USD"
GBPUSD == "GBP_USD"
Symbols == {NAS100, GBPUSD, "EUR_USD"}

\* NewBaseStrategy(symbol, period, riskPercentage, riskRatio, balanceToRisk,
\* stopLossPips); the period is read by none of the helpers
StopLossPipsValues == {0, 20}
RiskRatios == {1, 2}
BalancesToRisk == {0, 1000}
RiskPercentages == {1}
Strategies ==
    [symbol : Symbols, riskPercentage : RiskPercentages,
     riskRatio : RiskRatios, balanceToRisk : BalancesToRisk,
     stopLossPips : StopLossPipsValues]

\* slip: an unknown instrument gets the pip size of a currency pair
GetPipsFromInstr_DefaultPip(ins) ==
    IF ins = NAS100
    THEN [panicked |-> FALSE, pipSize |-> <<<<1, 10>>>>]
    ELSE [panicked |-> FALSE, pipSize |-> <<<<1, 10000>>>>]

\* GetPipsFromInstr(ins): 0.1 for NAS100_USD; for any other instrument the
\* call panics and returns nothing (pipSize <<>>)
GetPipsFromInstr(ins) ==
    IF ins = NAS100
    THEN [panicked |-> FALSE, pipSize |-> <<<<1, 10>>>>]
    ELSE [panicked |-> TRUE, pipSize |-> <<>>]

\* PipsToPrice(pips, pipSize) = float64(pips) * pipSize
PipsToPrice(pips, pipSize) == FracMul(FracOf(pips), pipSize)

\* float64 division of two fractions, with +Inf, -Inf and NaN as Quotient
\* has them
FracDiv(a, b) == Quotient(a[1] * b[2], a[2] * b[1])

\* calculatePositionSize(s, acc, entryPrice, stopLoss) on an account whose
\* balance is bal
calculatePositionSize(s, bal, entryPrice, stopLoss) ==
    LET balanceToUse == IF s.balanceToRisk = 0 THEN bal ELSE s.balanceToRisk
        riskAmount == FracMul(FracOf(balanceToUse),
                              Quotient(s.riskPercentage, 100))
        distance == FracSub(entryPrice, stopLoss)
        stopDistance == <<Abs(distance[1]), distance[2]>>
    IN FracDiv(riskAmount, stopDistance)

\* the body of OpenLong (side = 1) and of OpenShort (side = -1) once
\* GetPipsFromInstr has returned pipSize
SignalFor(s, bar, bal, pipSize, side) ==
    LET entryPrice == FracOf(bar.Close)
        step == PipsToPrice(s.stopLossPips, pipSize)
        stopLoss == IF side = 1 THEN FracSub(entryPrice, step)
                    ELSE FracAdd(entryPrice, step)
        reward == FracMul(step, FracOf(s.riskRatio))
        takeProfit == IF side = 1 THEN FracAdd(entryPrice, reward)
                      ELSE FracSub(entryPrice, reward)
    IN [Type |-> OPEN_TRADE, Action |-> IF side = 1 THEN BUY ELSE SELL,
        Price |-> entryPrice, SL |-> stopLoss, TP |-> takeProfit,
        Size |-> calculatePositionSize(s, bal, entryPrice, stopLoss)]

\* OpenLong(s, bar, acc): the panic of GetPipsFromInstr in the first
\* statement that needs the pip size leaves the function without a Signal
OpenLong(s, bar, bal) ==
    LET pip == GetPipsFromInstr(s.symbol)
    IN IF pip.panicked
       THEN [panicked |-> TRUE, pipSize |-> <<>>, signal |-> <<>>]
       ELSE [panicked |-> FALSE, pipSize |-> pip.pipSize,
             signal |-> <<SignalFor(s, bar, bal, pip.pipSize[1], 1)>>]

\* OpenShort(s, bar, acc)
OpenShort(s, bar, bal) ==
    LET pip == GetPipsFromInstr(s.symbol)
    IN IF pip.panicked
       THEN [panicked |-> TRUE, pipSize |-> <<>>, signal |-> <<>>]
       ELSE [panicked |-> FALSE, pipSize |-> pip.pipSize,
             signal |-> <<SignalFor(s, bar, bal, pip.pipSize[1], -1)>>]

\* a strategy built by NewBaseStrategy and an account for it to size on
SignalInit ==
    /\ bars = <<>>
    /\ initialBalance \in InitialBalances
    /\ NewAccount(initialBalance)
    /\ results = [InitialBalance |-> 0, FinalBalance |-> 0, Trades |-> <<>>]
    /\ i = 0
    /\ signals = <<>>
    /\ pc = "indicator"
    /\ emitted = 0
    /\ calls = <<>>
    /\ closeLog = <<>>
    /\ NoIndicator
    /\ NoResults
    /\ NoLogging
    /\ strat \in Strategies
    /\ fetch = <<>>
    /\ runs = <<>>
    /\ fed = <<>>

\* an unrecovered panic has ended the program
Panicked == fed # <<>> /\ fed[Len(fed)].panicked

\* signal := OpenLong(strat, bar, acc)
OpenLongCall(bar) ==
    /\ Len(fed) < MaxSignalCalls
    /\ ~Panicked
    /\ fed' = Append(fed, [op |-> "OpenLong", bar |-> bar,
                           out |-> OpenLong(strat, bar, Balance),
                           panicked |-> OpenLong(strat, bar,
                                                 Balance).panicked])
    /\ UNCHANGED <<runVars, indicatorVars, calcResults, loggingVars,
                   serviceVars>>

\* signal := OpenShort(strat, bar, acc)
OpenShortCall(bar) ==
    /\ Len(fed) < MaxSignalCalls
    /\ ~Panicked
    /\ fed' = Append(fed, [op |-> "OpenShort", bar |-> bar,
                           out |-> OpenShort(strat, bar, Balance),
                           panicked |-> OpenShort(strat, bar,
                                                  Balance).panicked])
    /\ UNCHANGED <<runVars, indicatorVars, calcResults, loggingVars,
                   serviceVars>>

SignalNext ==
    \/ \E shape \in BarShapes : OpenLongCall(Bar(shape, Len(fed) + 1))
    \/ \E shape \in BarShapes : OpenShortCall(Bar(shape, Len(fed) + 1))

SignalSpec == SignalInit /\ [][SignalNext]_vars

(* ------------------------------ FetchBars ----------------------------- *)
\* the number of batch requests one FetchBars call is followed through
MaxRequests == 3

\* times are counted in minutes since the epoch
MaxCandlesPerRequest == 4000

\* a time.Duration is an int64 of nanoseconds: 2^63 ns in whole minutes
Int64Minutes == 153722867

\* the product of two durations as Go computes it, wrapped to the int64
WrapDuration(d) ==
    IF d >= Int64Minutes THEN d - 2 * Int64Minutes
    ELSE IF d < -Int64Minutes THEN d + 2 * Int64Minutes
    ELSE d

\* CandlestickGranularity.ToDuration: the entries of granularityToDuration
\* for M1 and M, and the error for a granularity the map does not hold
Granularities == {"M1", "M", "S5"}
ToDuration(g) ==
    IF g = "M1" THEN [err |-> <<>>, duration |-> 1]
    ELSE IF g = "M" THEN [err |-> <<>>, duration |-> 30 * 24 * 60]
    ELSE [err |-> <<"invalid granularity">>, duration |-> 0]

\* time.Parse(time.RFC3339, s): <<minutes>>, or <<>> for a parse error
ParseTime(s) ==
    CASE s = "1970-01-01T00:00:00Z" -> <<0>>
      [] s = "1970-01-01T16:40:00Z" -> <<1000>>
      [] s = "1970-01-01T17:40:00+01:00" -> <<1000>>
      [] s = "1970-01-03T18:40:00Z" -> <<4000>>
      [] OTHER -> <<>>

\* strconv.ParseFloat(s, 64): <<fraction>>, or <<>> for a parse error
ParseFloat(s) ==
    CASE s = "2" -> <<<<2, 1>>>>
      [] s = "1.5" -> <<<<3, 2>>>>
      [] OTHER -> <<>>

Candle(time, price) ==
    [Time |-> time,
     Mid |-> [O |-> "2", H |-> "2", L |-> "1.5", C |-> price],
     Volume |-> 7]

\* what the server may answer to one batch request: a transport error, a
\* status other than 200, a body that does not decode, or a candle list --
\* empty, in order, out of order, older than the request, or with a time or
\* a price that does not parse
Replies ==
    {[err |-> <<e>>, Candles |-> <<>>] :
        e \in {"transport", "status", "decode"}}
    \cup
    {[err |-> <<>>, Candles |-> cs] :
        cs \in {<<>>,
                <<Candle("1970-01-01T00:00:00Z", "2")>>,
                <<Candle("1970-01-01T16:40:00Z", "2"),
                  Candle("1970-01-03T18:40:00Z", "1.5")>>,
                <<Candle("1970-01-03T18:40:00Z", "2"),
                  Candle("1970-01-01T17:40:00+01:00", "2")>>,
                <<Candle("1970-01-03T18:40:00Z", "2")>>,
                <<Candle("1970-01-01T00:00:00Z", "2"),
                  Candle("yesterday", "2")>>,
                <<Candle("1970-01-01T16:40:00Z", "abc")>>}}

\* candlesToBars(candles): the bars, or an error and no bars at the first
\* candle whose time or one of whose prices does not parse
RECURSIVE candlesToBars(_)
candlesToBars(candles) ==
    IF candles = <<>> THEN [err |-> <<>>, bars |-> <<>>]
    ELSE LET candle == Head(candles)
             timestamp == ParseTime(candle.Time)
             o == ParseFloat(candle.Mid.O)
             h == ParseFloat(candle.Mid.H)
             l == ParseFloat(candle.Mid.L)
             c == ParseFloat(candle.Mid.C)
             rest == candlesToBars(Tail(candles))
         IN IF timestamp = <<>>
            THEN [err |-> <<"failed to parse candle time">>, bars |-> <<>>]
            ELSE IF o = <<>> \/ h = <<>> \/ l = <<>> \/ c = <<>>
            THEN [err |-> <<"failed to parse candle price">>, bars |-> <<>>]
            ELSE IF rest.err # <<>> THEN rest
            ELSE [err |-> <<>>,
                  bars |-> <<[Timestamp |-> timestamp[1], Open |-> o[1],
                              High |-> h[1], Low |-> l[1], Close |-> c[1],
                              Volume |-> FracOf(candle.Volume)]>>
                           \o rest.bars]

\* slip: the bars gathered so far are handed back with the error
FailWith_KeepsBars(f, err) ==
    [f EXCEPT !.pc = "done",
              !.ret = <<[bars |-> f.allBars, err |-> <<err>>]>>]

\* return nil, err
FailWith(f, err) ==
    [f EXCEPT !.pc = "done", !.ret = <<[bars |-> <<>>, err |-> <<err>>]>>]

\* return allBars, nil
ReturnAll(f) ==
    [f EXCEPT !.pc = "done", !.ret = <<[bars |-> f.allBars, err |-> <<>>]>>]

\* a call FetchBars(ctx, req) about to start, at wall-clock time now
FetchInit ==
    /\ RunIdle
    /\ NoIndicator
    /\ NoResults
    /\ NoLogging
    /\ strat = <<>>
    /\ runs = <<>>
    /\ \E g \in Granularities, from \in {0, 3000}, to \in {0, 5000, 9000},
          now \in {6000, 10000} :
         fetch = [pc |-> "start",
                  req |-> [Granularity |-> g, From |-> from, To |-> to],
                  now |-> now, period |-> 0, currentFrom |-> 0,
                  allBars |-> <<>>, requests |-> <<>>, ret |-> <<>>]
    /\ fed = <<>>

\* the statements before the loop: ToDuration, the clamp of req.To to the
\* current time, allBars and currentFrom
FetchStart ==
    /\ fetch.pc = "start"
    /\ LET d == ToDuration(fetch.req.Granularity)
       IN fetch' =
            IF d.err # <<>> THEN FailWith(fetch, d.err[1])
            ELSE [fetch EXCEPT
                    !.pc = "loop",
                    !.period = d.duration,
                    !.req.To = IF @ > fetch.now THEN fetch.now ELSE @,
                    !.currentFrom = fetch.req.From]
    /\ UNCHANGED <<runVars, indicatorVars, calcResults, loggingVars, strat,
                   runs, fed>>

\* the request of one iteration: From = currentFrom, To = batchTo
BatchRequest(f) ==
    LET batchTo == f.currentFrom
                     + WrapDuration(f.period * MaxCandlesPerRequest)
    IN [From |-> f.currentFrom,
        To |-> IF batchTo > f.req.To THEN f.req.To ELSE batchTo]

\* one iteration of the loop, the server answering reply
BatchStep(reply) ==
    /\ fetch.pc = "loop"
    /\ fetch.currentFrom < fetch.req.To
    /\ Len(fetch.requests) < MaxRequests
    /\ LET f == [fetch EXCEPT !.requests = Append(@, BatchRequest(fetch))]
           converted == candlesToBars(reply.Candles)
       IN fetch' =
            IF reply.err # <<>> THEN FailWith(f, reply.err[1])
            ELSE IF reply.Candles = <<>> THEN ReturnAll(f)
            ELSE IF converted.err # <<>> THEN FailWith(f, converted.err[1])
            ELSE [f EXCEPT
                    !.allBars = @ \o converted.bars,
                    !.currentFrom =
                        converted.bars[Len(converted.bars)].Timestamp
                          + f.period]
    /\ fed' = Append(fed, reply)
    /\ UNCHANGED <<runVars, indicatorVars, calcResults, loggingVars, strat,
                   runs>>

\* currentFrom.Before(req.To) is false: return allBars, nil
LoopExit ==
    /\ fetch.pc = "loop"
    /\ ~(fetch.currentFrom < fetch.req.To)
    /\ fetch' = ReturnAll(fetch)
    /\ UNCHANGED <<runVars, indicatorVars, calcResults, loggingVars, strat,
                   runs, fed>>

FetchNext ==
    \/ FetchStart
    \/ \E reply \in Replies : BatchStep(reply)
    \/ LoopExit

FetchSpec == FetchInit /\ [][FetchNext]_vars

(* ------------------- several Runs on one Engine ----------------------- *)
\* the callers of Run on the one Engine; each may be at any statement of
\* its Run while the other takes a step
Runners == {"first", "second"}

\* the Engine's bars: a falling bar and a rising bar, which between them
\* trigger every level of the signals below
RunShapes ==
    {[Open |-> 2, High |-> 2, Low |-> 1, Close |-> 1],
     [Open |-> 2, High |-> 4, Low |-> 2, Close |-> 4]}

RunBarSeqs ==
    UNION {{[k \in 1..n |-> Bar(f[k], k)] : f \in [1..n -> RunShapes]} :
           n \in 0..MaxBars}

\* what a strategy may return from one OnBar call
RunSignalLists ==
    {<<>>,
     <<[Type |-> OPEN_TRADE, Action |-> BUY, Price |-> 2, TP |-> 3,
        SL |-> 1, Size |-> 1]>>,
     <<[Type |-> OPEN_TRADE, Action |-> SELL, Price |-> 2, TP |-> 1,
        SL |-> 3, Size |-> 2],
       [Type |-> OPEN_TRADE, Action |-> BUY, Price |-> 2, TP |-> 3,
        SL |-> 1, Size |-> 1]>>}

\* a caller that has not called Run yet
NotStarted ==
    [pc |-> "idle", i |-> 0, acc |-> <<>>, results |-> <<>>, got |-> <<>>]

\* slip: the account is kept in the Engine and taken over by the next Run
AccountForRun_Shared(rs, bal) ==
    IF \E j \in Runners : rs[j].pc # "idle"
    THEN (rs[CHOOSE j \in Runners : rs[j].pc # "idle"]).acc
    ELSE [Balance |-> bal, openPositions |-> <<>>, nextPositionID |-> 1]

\* acc := account.NewAccount(e.initialBalance), a local of this Run,
\* whatever the other activations rs hold
AccountForRun(rs, bal) ==
    [Balance |-> bal, openPositions |-> <<>>, nextPositionID |-> 1]

\* acc.CheckExits(bar) on the account record acc
AccCheckExits(acc, bar) ==
    [acc EXCEPT
       !.Balance = CheckExits(acc.Balance, acc.openPositions, bar).Balance,
       !.openPositions =
          CheckExits(acc.Balance, acc.openPositions,
                     bar).remainingPositions]

\* the range over signals: acc.OpenTrade(signal, timestamp) for every
\* signal of type OPEN_TRADE
RECURSIVE AccOpenAll(_, _, _)
AccOpenAll(acc, sigs, timestamp) ==
    IF sigs = <<>> THEN acc
    ELSE IF Head(sigs).Type # OPEN_TRADE
    THEN AccOpenAll(acc, Tail(sigs), timestamp)
    ELSE AccOpenAll(
           [acc EXCEPT
              !.openPositions =
                 Append(@, NewPosition(acc.nextPositionID, Head(sigs),
                                       timestamp)),
              !.nextPositionID = @ + 1],
           Tail(sigs), timestamp)

\* acc.CloseAll(lastBar) on the account record acc
AccCloseAll(acc, lastBar) ==
    [acc EXCEPT
       !.Balance = CloseAll(acc.Balance, acc.openPositions, lastBar).Balance,
       !.openPositions = <<>>]

\* one Engine, built by NewEngine(bars, initialBalance), and nobody in Run
RunsInit ==
    /\ bars \in RunBarSeqs
    /\ initialBalance \in InitialBalances
    /\ NewAccount(0)
    /\ results = [InitialBalance |-> 0, FinalBalance |-> 0, Trades |-> <<>>]
    /\ i = 0
    /\ signals = <<>>
    /\ pc = "indicator"
    /\ emitted = 0
    /\ calls = <<>>
    /\ closeLog = <<>>
    /\ NoIndicator
    /\ NoResults
    /\ NoLogging
    /\ strat = <<>>
    /\ fetch = <<>>
    /\ runs = [k \in Runners |-> NotStarted]
    /\ fed = <<>>

\* caller k enters Run: the first statements, up to the loop
StartRun(k) ==
    /\ runs[k].pc = "idle"
    /\ runs' = [runs EXCEPT ![k] =
          [pc |-> IF bars = <<>> THEN "after" ELSE "CheckExits",
           i |-> 0,
           acc |-> AccountForRun(runs, initialBalance),
           results |-> [InitialBalance |-> 10000, FinalBalance |-> 0,
                        Trades |-> <<>>],
           got |-> <<>>]]
    /\ UNCHANGED <<runVars, indicatorVars, calcResults, loggingVars, strat,
                   fetch, fed>>

\* caller k: closedTrades := acc.CheckExits(bar) and the append to
\* results.Trades
RunCheckExits(k) ==
    /\ runs[k].pc = "CheckExits"
    /\ LET a == runs[k]
           bar == bars[a.i + 1]
       IN runs' = [runs EXCEPT ![k] =
             [a EXCEPT
                !.pc = "OnBar",
                !.acc = AccCheckExits(a.acc, bar),
                !.results.Trades =
                   @ \o CheckExits(a.acc.Balance, a.acc.openPositions,
                                   bar).closedTrades]]
    /\ UNCHANGED <<runVars, indicatorVars, calcResults, loggingVars, strat,
                   fetch, fed>>

\* caller k: signals := strategy.OnBar(e.Bars, i, acc), the range over the
\* signals, and the step to the next bar
RunOnBar(k, sigs) ==
    /\ runs[k].pc = "OnBar"
    /\ LET a == runs[k]
           bar == bars[a.i + 1]
       IN runs' = [runs EXCEPT ![k] =
             [a EXCEPT
                !.pc = IF a.i + 1 < Len(bars) THEN "CheckExits" ELSE "after",
                !.i = @ + 1,
                !.acc = AccOpenAll(a.acc, sigs, bar.Timestamp),
                !.got = Append(@, sigs)]]
    /\ UNCHANGED <<runVars, indicatorVars, calcResults, loggingVars, strat,
                   fetch, fed>>

\* caller k: the statements after the loop, up to the return
RunFinish(k) ==
    /\ runs[k].pc = "after"
    /\ LET a == runs[k]
           closed == IF Len(bars) > 0
                     THEN AccCloseAll(a.acc, bars[Len(bars)])
                     ELSE a.acc
           remainingTrades ==
              IF Len(bars) > 0
              THEN CloseAll(a.acc.Balance, a.acc.openPositions,
                            bars[Len(bars)]).trades
              ELSE <<>>
       IN runs' = [runs EXCEPT ![k] =
             [a EXCEPT !.pc = "done",
                       !.acc = closed,
                       !.results.Trades = @ \o remainingTrades,
                       !.results.FinalBalance = closed.Balance]]
    /\ UNCHANGED <<runVars, indicatorVars, calcResults, loggingVars, strat,
                   fetch, fed>>

RunsNext ==
    \E k \in Runners :
       \/ StartRun(k)
       \/ RunCheckExits(k)
       \/ \E sigs \in RunSignalLists : RunOnBar(k, sigs)
       \/ RunFinish(k)

RunsSpec == RunsInit /\ [][RunsNext]_vars

(* ------------- signals whose action is neither BUY nor SELL ----------- *)
\* types.Action is a string: a signal may carry any action, such as the
\* zero value or a word OpenTrade has no case for
OtherActionSignals ==
    {[Type |-> OPEN_TRADE, Action |-> a, Price |-> 2, TP |-> 3, SL |-> 1,
      Size |-> 1] : a \in {"", "HOLD"}}

\* acc.OpenTrade(signal, timestamp) with such a signal
AccountOpenOther ==
    /\ pc = "account"
    /\ Len(calls) < MaxCalls
    /\ \E signal \in OtherActionSignals : DoOpenTrade(signal, CallTime)
    /\ UNCHANGED <<bars, initialBalance, results, i, signals, pc, emitted>>
    /\ UNCHANGED componentVars

DirectionNext ==
    \/ AccountOpenTrade
    \/ AccountOpenOther
    \/ AccountCheckExits
    \/ AccountCloseAll

DirectionSpec == AccountInit /\ [][DirectionNext]_vars

(* ---------------------------- properties ------------------------------ *)
TypeOK ==
    /\ pc \in {"CheckExits", "OnBar", "Signals", "after", "final", "done",
               "account"}
    /\ i \in 0..Len(bars)
    /\ emitted \in 0..MaxSignals
    /\ nextPositionID \in 1..(MaxSignals + MaxCalls + 1)

InRun == pc # "account"
Returned == pc = "done"
LastCall == calls[Len(calls)]
OpenTradeCalls == SelectOp(calls, "OpenTrade")
\* how many elements of seq carry the ID id
CountID(seq, id) == Cardinality({k \in DOMAIN seq : seq[k].ID = id})
\* the IDs OpenTrade has handed out
AssignedIDs == {OpenTradeCalls[k].pos.ID : k \in DOMAIN OpenTradeCalls}
\* the positions closePosition was called on more than once
RealizedTwice == {id \in AssignedIDs : CountID(closeLog, id) > 1}

RECURSIVE OpenIntents(_)
\* the number of OPEN_TRADE signals the OnBar calls of log returned
OpenIntents(log) ==
    IF log = <<>> THEN 0
    ELSE (IF Head(log).op = "OnBar"
          THEN Len(SelectSeq(Head(log).signals,
                             LAMBDA sig : sig.Type = OPEN_TRADE))
          ELSE 0) + OpenIntents(Tail(log))

\* C1: during and after a Run, the account balance is the engine's initial
\* balance plus the sum of the PnL of the trades recorded in the results so
\* far, and the final balance reported is that sum too.
C1_BalanceIsInitialPlusTradePnL ==
    InRun =>
        /\ Balance = initialBalance + SumPnL(results.Trades)
        /\ Returned =>
             results.FinalBalance = initialBalance + SumPnL(results.Trades)

\* C2: when Run returns on a non-empty bar sequence no position is open,
\* and right after any CloseAll call PositionCount() is 0.
C2_NothingOpenAfterRunOrCloseAll ==
    /\ (Returned /\ bars # <<>>) => openPositions = <<>>
    /\ (calls # <<>> /\ LastCall.op = "CloseAll") => PositionCount = 0

C2_Witness ==
    /\ Returned
    /\ bars # <<>>
    /\ LastCall.op = "CloseAll"
    /\ LastCall.before # <<>>
    /\ \E k \in DOMAIN calls :
         calls[k].op = "CheckExits" /\ calls[k].trades # <<>>

\* C3: in a Run, every position ID handed out by OpenTrade is either the ID
\* of one open position or the ID of exactly one trade of the results,
\* never both and never neither; when Run returns on a non-empty bar
\* sequence there are as many trades as OPEN_TRADE signals were returned by
\* the strategy.
C3_PositionOpenXorClosed ==
    InRun =>
        /\ \A id \in AssignedIDs :
             CountID(openPositions, id) + CountID(results.Trades, id) = 1
        /\ (Returned /\ bars # <<>>) =>
             Len(results.Trades) = OpenIntents(calls)

C3_Witness ==
    /\ Returned
    /\ RealizedTwice # {}
    /\ Len(results.Trades) = 2

\* C4: the k-th OpenTrade call on an account returns the position with ID
\* k, whatever CheckExits and CloseAll calls were made in between.
C4_KthOpenTradeGetsIDk ==
    \A k \in DOMAIN OpenTradeCalls : OpenTradeCalls[k].pos.ID = k

C4_Witness ==
    /\ ~InRun
    /\ \E a, b \in DOMAIN calls :
         /\ a < b
         /\ calls[a].op \in {"CheckExits", "CloseAll"}
         /\ calls[a].trades # <<>>
         /\ calls[b].op = "OpenTrade"
         /\ calls[b].pos.ID = 2
         /\ calls[b].before = <<>>

ExitReasons == {"STOP_LOSS", "TAKE_PROFIT"}
CheckExitsCalls == SelectOp(calls, "CheckExits")
\* the 0-based index of the bar of the run that carries timestamp ts
IndexOfTime(ts) == (CHOOSE k \in DOMAIN bars : bars[k].Timestamp = ts) - 1
\* the index of the bar on which the position with this ID was opened
OpenIndex(id) ==
    LET o == CHOOSE k \in DOMAIN OpenTradeCalls :
                 OpenTradeCalls[k].pos.ID = id
    IN OpenTradeCalls[o].index

\* C5: in a Run, no position is in the open set that CheckExits evaluates
\* against the bar it was opened on, and every STOP_LOSS or TAKE_PROFIT
\* trade of the results exits on a bar of strictly greater index than its
\* entry bar.
C5_NoExitOnOpeningBar ==
    InRun =>
        /\ \A k \in DOMAIN CheckExitsCalls :
             \A p \in DOMAIN CheckExitsCalls[k].before :
                OpenIndex(CheckExitsCalls[k].before[p].ID)
                    < CheckExitsCalls[k].index
        /\ \A t \in DOMAIN results.Trades :
             results.Trades[t].ExitReason \in ExitReasons =>
                IndexOfTime(results.Trades[t].ExitTime)
                    > IndexOfTime(results.Trades[t].EntryTime)

\* a position whose stop-loss already held on its opening bar was closed
\* on the bar after it
C5_Witness ==
    /\ Returned
    /\ \E t \in DOMAIN results.Trades :
         LET tr == results.Trades[t]
             openBar == bars[IndexOfTime(tr.EntryTime) + 1]
         IN /\ tr.ExitReason \in ExitReasons
            /\ tr.Direction = LONG
            /\ openBar.Low <= tr.StopLoss
            /\ IndexOfTime(tr.ExitTime) = IndexOfTime(tr.EntryTime) + 1

\* the CheckExits and OnBar calls of the log, in order
BarCalls == SelectSeq(calls, LAMBDA e : e.op \in {"CheckExits", "OnBar"})
\* the last CheckExits or OnBar call before position k of the log
LastBarCallBefore(k) ==
    LET ks == {j \in 1..(k - 1) : calls[j].op \in {"CheckExits", "OnBar"}}
    IN IF ks = {} THEN 0 ELSE CHOOSE j \in ks : \A m \in ks : m <= j
\* the signals OpenTrade was called with on bar x, in call order
OpenedOn(x) ==
    LET os == SelectSeq(calls,
                  LAMBDA e : e.op = "OpenTrade" /\ e.index = x)
    IN [k \in DOMAIN os |-> os[k].signal]
IsPrefix(a, b) == Len(a) <= Len(b) /\ \A k \in DOMAIN a : a[k] = b[k]
RECURSIVE TradesReturned(_)
\* the number of trades the CheckExits calls of log returned
TradesReturned(log) ==
    IF log = <<>> THEN 0
    ELSE (IF Head(log).op = "CheckExits" THEN Len(Head(log).trades) ELSE 0)
         + TradesReturned(Tail(log))

\* C6: Run takes the bars in index order, each once; on bar i it calls
\* CheckExits(bar i), records its trades, then calls OnBar once with index
\* i, then OpenTrade for the OPEN_TRADE signals in the order returned;
\* OnBar sees the account as CheckExits of the same bar left it.
C6_BarOrderAndStepOrder ==
    InRun =>
        /\ \A j \in DOMAIN BarCalls :
             /\ BarCalls[j].index = (j - 1) \div 2
             /\ BarCalls[j].op = IF j % 2 = 1 THEN "CheckExits" ELSE "OnBar"
             /\ BarCalls[j].op = "CheckExits" =>
                  BarCalls[j].bar = bars[BarCalls[j].index + 1]
        /\ \A k \in DOMAIN calls :
             /\ calls[k].op \in {"OpenTrade", "Ignore"} =>
                  /\ LastBarCallBefore(k) > 0
                  /\ calls[LastBarCallBefore(k)].op = "OnBar"
                  /\ calls[LastBarCallBefore(k)].index = calls[k].index
             /\ calls[k].op = "OnBar" =>
                  /\ k > 1
                  /\ calls[k - 1].op = "CheckExits"
                  /\ calls[k - 1].index = calls[k].index
                  /\ calls[k].seenOpen = calls[k - 1].after
                  /\ calls[k].seenBalance = calls[k - 1].balanceAfter
                  /\ calls[k].recorded = TradesReturned(SubSeq(calls, 1, k))
                  /\ IsPrefix(OpenedOn(calls[k].index),
                              SelectSeq(calls[k].signals,
                                  LAMBDA sig : sig.Type = OPEN_TRADE))
                  /\ (pc # "Signals" \/ i # calls[k].index) =>
                       Len(OpenedOn(calls[k].index)) =
                         Len(SelectSeq(calls[k].signals,
                                  LAMBDA sig : sig.Type = OPEN_TRADE))
        /\ Returned => Len(BarCalls) = 2 * Len(bars)

\* a run over two bars in which one OnBar call returned two open signals
\* and a later CheckExits closed a position before the next OnBar
C6_Witness ==
    /\ Returned
    /\ Len(bars) = 2
    /\ \E k \in DOMAIN calls :
         /\ calls[k].op = "OnBar"
         /\ Len(calls[k].signals) = 2
         /\ calls[k].signals[1] # calls[k].signals[2]
         /\ \A n \in 1..2 : calls[k].signals[n].Type = OPEN_TRADE
    /\ \E k \in DOMAIN calls :
         /\ calls[k].op = "OnBar"
         /\ calls[k - 1].trades # <<>>
         /\ Len(calls[k].seenOpen) = 1

\* the exit conditions as the bar's high and low decide them
Triggered(pos, bar) ==
    IF pos.Direction = LONG
    THEN bar.Low <= pos.StopLoss \/ bar.High >= pos.TakeProfit
    ELSE bar.High >= pos.StopLoss \/ bar.Low <= pos.TakeProfit

\* C7: CheckExits(bar) closes an open position (returns a trade for it and
\* drops it from the open set) exactly if bar.Low <= StopLoss or bar.High >=
\* TakeProfit for a LONG, bar.High >= StopLoss or bar.Low <= TakeProfit for
\* a SHORT; otherwise the position stays open.
C7_ClosedIffTriggered ==
    \A k \in DOMAIN CheckExitsCalls :
        LET e == CheckExitsCalls[k]
        IN \A p \in DOMAIN e.before :
             LET pos == e.before[p]
             IN IF Triggered(pos, e.bar)
                THEN CountID(e.trades, pos.ID) = 1
                     /\ CountID(e.after, pos.ID) = 0
                ELSE CountID(e.trades, pos.ID) = 0
                     /\ CountID(e.after, pos.ID) = 1

\* a CheckExits call with two open positions closed a long touched exactly
\* at its stop and kept the other position
C7_Witness ==
    \E k \in DOMAIN CheckExitsCalls :
        LET e == CheckExitsCalls[k]
        IN /\ Len(e.before) = 2
           /\ Len(e.after) = 1
           /\ \E p \in DOMAIN e.before :
                /\ e.before[p].Direction = LONG
                /\ e.bar.Low = e.before[p].StopLoss
                /\ CountID(e.trades, e.before[p].ID) = 1

\* C8: a trade returned by CheckExits exits at the position's StopLoss level
\* when its reason is STOP_LOSS and at its TakeProfit level when its reason
\* is TAKE_PROFIT, at the bar's timestamp, and carries the ID, direction,
\* entry price, size, stop-loss, take-profit and open time of the position
\* it closes.
C8_ExitAtExactLevel ==
    \A k \in DOMAIN CheckExitsCalls :
        LET e == CheckExitsCalls[k]
        IN \A t \in DOMAIN e.trades :
             LET tr == e.trades[t]
             IN /\ tr.ExitReason \in ExitReasons
                /\ tr.ExitReason = "STOP_LOSS" => tr.ExitPrice = tr.StopLoss
                /\ tr.ExitReason = "TAKE_PROFIT" =>
                     tr.ExitPrice = tr.TakeProfit
                /\ tr.ExitTime = e.bar.Timestamp
                /\ \E p \in DOMAIN e.before :
                     LET pos == e.before[p]
                     IN /\ tr.ID = pos.ID
                        /\ tr.Direction = pos.Direction
                        /\ tr.EntryPrice = pos.EntryPrice
                        /\ tr.Size = pos.Size
                        /\ tr.StopLoss = pos.StopLoss
                        /\ tr.TakeProfit = pos.TakeProfit
                        /\ tr.EntryTime = pos.OpenTime

\* a take-profit and a stop-loss trade whose exit price is none of the
\* bar's open, high, low and close
C8_Witness ==
    \E k \in DOMAIN CheckExitsCalls :
        LET e == CheckExitsCalls[k]
        IN /\ \E t \in DOMAIN e.trades :
                /\ e.trades[t].ExitReason = "TAKE_PROFIT"
                /\ e.trades[t].ExitPrice
                     \notin {e.bar.Open, e.bar.High, e.bar.Low, e.bar.Close}
           /\ \E t \in DOMAIN e.trades :
                /\ e.trades[t].ExitReason = "STOP_LOSS"
                /\ e.trades[t].ExitPrice
                     \notin {e.bar.Open, e.bar.High, e.bar.Low, e.bar.Close}

\* what closing pos at price adds to the balance
Gain(pos, price) ==
    IF pos.Direction = LONG
    THEN (price - pos.EntryPrice) * pos.Size
    ELSE (pos.EntryPrice - price) * pos.Size
StopTriggered(pos, bar) ==
    IF pos.Direction = LONG
    THEN bar.Low <= pos.StopLoss ELSE bar.High >= pos.StopLoss
TargetTriggered(pos, bar) ==
    IF pos.Direction = LONG
    THEN bar.High >= pos.TakeProfit ELSE bar.Low <= pos.TakeProfit
RECURSIVE GainOfTriggers(_, _)
\* the sum, over the positions, of the gain of every trigger that holds
GainOfTriggers(positions, bar) ==
    IF positions = <<>> THEN 0
    ELSE LET pos == Head(positions)
         IN (IF StopTriggered(pos, bar)
             THEN Gain(pos, pos.StopLoss) ELSE 0)
            + (IF TargetTriggered(pos, bar)
               THEN Gain(pos, pos.TakeProfit) ELSE 0)
            + GainOfTriggers(Tail(positions), bar)

\* C9: when stop-loss and take-profit of a position both trigger on the
\* bar, CheckExits returns exactly one trade for it, the TAKE_PROFIT one at
\* the take-profit level, while the balance moves by the stop-loss PnL plus
\* the take-profit PnL (the balance change of a call is the sum of the PnL
\* of every trigger that held).
C9_BothTriggersBothApplied ==
    \A k \in DOMAIN CheckExitsCalls :
        LET e == CheckExitsCalls[k]
        IN /\ e.balanceAfter - e.balanceBefore
                = GainOfTriggers(e.before, e.bar)
           /\ \A p \in DOMAIN e.before :
                LET pos == e.before[p]
                IN (StopTriggered(pos, e.bar)
                    /\ TargetTriggered(pos, e.bar)) =>
                     /\ CountID(e.trades, pos.ID) = 1
                     /\ \A t \in DOMAIN e.trades :
                          e.trades[t].ID = pos.ID =>
                            /\ e.trades[t].ExitReason = "TAKE_PROFIT"
                            /\ e.trades[t].ExitPrice = pos.TakeProfit
                            /\ e.trades[t].PnL
                                 = Gain(pos, pos.TakeProfit)

\* a call in which both triggers of the only open position held and the
\* balance moved by something else than the PnL of the trade returned
C9_Witness ==
    \E k \in DOMAIN CheckExitsCalls :
        LET e == CheckExitsCalls[k]
        IN /\ Len(e.before) = 1
           /\ StopTriggered(e.before[1], e.bar)
           /\ TargetTriggered(e.before[1], e.bar)
           /\ Len(e.trades) = 1
           /\ e.balanceAfter - e.balanceBefore # e.trades[1].PnL
           /\ e.balanceAfter - e.balanceBefore
                = Gain(e.before[1], e.before[1].StopLoss)
                  + Gain(e.before[1], e.before[1].TakeProfit)

\* C10: in a Run, closePosition runs exactly once for every closed position
\* and never for an open one, and the trade list of the results is exactly
\* the list of the trades closePosition built, each appended once.
C10_RealizedExactlyOnce ==
    InRun =>
        /\ \A id \in AssignedIDs :
             CountID(closeLog, id) = CountID(results.Trades, id)
        /\ results.Trades = closeLog

\* the step is a call of the account operation op
IsCall(op) ==
    /\ Len(calls') = Len(calls) + 1
    /\ calls'[Len(calls')].op = op

\* C11: CheckExits keeps exactly the positions with no triggered exit, with
\* their fields and in their order, and leaves the next position ID alone;
\* when no position triggers it returns no trades and leaves the balance
\* and the open set as they were.
C11_UntriggeredPositionsUntouched ==
    [][IsCall("CheckExits") =>
         LET e == calls'[Len(calls')]
             kept == SelectSeq(openPositions,
                               LAMBDA pos : ~Triggered(pos, e.bar))
         IN /\ openPositions' = kept
            /\ nextPositionID' = nextPositionID
            /\ kept = openPositions =>
                 /\ e.trades = <<>>
                 /\ Balance' = Balance
                 /\ results'.Trades = results.Trades]_vars

\* a CheckExits call found two open positions and closed neither
C11_Witness ==
    \E k \in DOMAIN CheckExitsCalls :
        /\ Len(CheckExitsCalls[k].before) = 2
        /\ CheckExitsCalls[k].after = CheckExitsCalls[k].before
        /\ CheckExitsCalls[k].trades = <<>>
        /\ openPositions = CheckExitsCalls[k].before

CloseAllCalls == SelectOp(calls, "CloseAll")

\* C12: CloseAll(lastBar) returns one trade per open position, in the order
\* of the open set, each closed at lastBar.Close and lastBar.Timestamp with
\* reason END_OF_BACKTEST, whatever the position's stop-loss and
\* take-profit; the balance grows by the sum of the trades' PnL.
C12_CloseAllAtLastClose ==
    \A k \in DOMAIN CloseAllCalls :
        LET e == CloseAllCalls[k]
        IN /\ Len(e.trades) = Len(e.before)
           /\ e.balanceAfter - e.balanceBefore = SumPnL(e.trades)
           /\ \A p \in DOMAIN e.before :
                /\ e.trades[p].ID = e.before[p].ID
                /\ e.trades[p].ExitPrice = e.bar.Close
                /\ e.trades[p].ExitTime = e.bar.Timestamp
                /\ e.trades[p].ExitReason = "END_OF_BACKTEST"
                /\ e.trades[p].PnL = Gain(e.before[p], e.bar.Close)

\* CloseAll closed two positions on a bar that reaches the take-profit of
\* one of them, at a close that is neither its stop nor its target
C12_Witness ==
    \E k \in DOMAIN CloseAllCalls :
        LET e == CloseAllCalls[k]
        IN /\ Len(e.before) = 2
           /\ e.bar.Close # e.bar.Open
           /\ \E p \in DOMAIN e.before :
                /\ TargetTriggered(e.before[p], e.bar)
                /\ e.bar.Close
                     \notin {e.before[p].StopLoss, e.before[p].TakeProfit}
                /\ e.trades[p].PnL # 0

\* C13: OpenTrade(signal, timestamp) appends one position to the end of the
\* open set: LONG for BUY, SHORT for SELL, with the next ID, the signal's
\* price, size, stop-loss and take-profit and the timestamp; the positions
\* already open and the balance are unchanged.
C13_OpenTradeAppendsOnePosition ==
    [][IsCall("OpenTrade") =>
         LET e == calls'[Len(calls')]
         IN /\ Len(openPositions') = Len(openPositions) + 1
            /\ SubSeq(openPositions', 1, Len(openPositions)) = openPositions
            /\ Balance' = Balance
            /\ LET pos == openPositions'[Len(openPositions')]
               IN /\ e.signal.Action = BUY => pos.Direction = LONG
                  /\ e.signal.Action = SELL => pos.Direction = SHORT
                  /\ pos.ID = nextPositionID
                  /\ pos.OpenTime = e.timestamp
                  /\ pos.EntryPrice = e.signal.Price
                  /\ pos.Size = e.signal.Size
                  /\ pos.StopLoss = e.signal.SL
                  /\ pos.TakeProfit = e.signal.TP]_vars

\* a BUY and a SELL were opened, the second next to the first
C13_Witness ==
    /\ Len(openPositions) = 2
    /\ openPositions[1].Direction = LONG
    /\ openPositions[2].Direction = SHORT
    /\ Len(OpenTradeCalls) = 2
    /\ OpenTradeCalls[2].before = <<openPositions[1]>>

\* C14: every closure realizes (exit - entry) * size for a LONG and
\* (entry - exit) * size for a SHORT and the balance grows by exactly the
\* PnL of every closure; long 100 -> 105, size 1 gives +5 and short
\* 105 -> 120, size 1 gives -15.
C14_PnLByDirection ==
    /\ \A k \in DOMAIN closeLog :
         closeLog[k].PnL =
            IF closeLog[k].Direction = LONG
            THEN (closeLog[k].ExitPrice - closeLog[k].EntryPrice)
                    * closeLog[k].Size
            ELSE (closeLog[k].EntryPrice - closeLog[k].ExitPrice)
                    * closeLog[k].Size
    /\ Balance = initialBalance + SumPnL(closeLog)
    /\ closePosition(10000, [ID |-> 1, OpenTime |-> 0, Direction |-> LONG,
                             EntryPrice |-> 100, Size |-> 1,
                             StopLoss |-> 50, TakeProfit |-> 105],
                     105, 15, "TAKE_PROFIT").trade.PnL = 5
    /\ closePosition(10005, [ID |-> 2, OpenTime |-> 15, Direction |-> SHORT,
                             EntryPrice |-> 105, Size |-> 1,
                             StopLoss |-> 205, TakeProfit |-> 55],
                     120, 45, "END_OF_BACKTEST").Balance = 10005 - 15

\* a winning long of size 1 and a losing short of size 2 were realized
C14_Witness ==
    /\ \E k \in DOMAIN closeLog :
         /\ closeLog[k].Direction = LONG
         /\ closeLog[k].PnL > 0
    /\ \E k \in DOMAIN closeLog :
         /\ closeLog[k].Direction = SHORT
         /\ closeLog[k].Size = 2
         /\ closeLog[k].PnL < 0
    /\ Balance # initialBalance

\* C15: a Run on an empty bar sequence calls neither the strategy nor
\* CheckExits, OpenTrade or CloseAll, records no trade, and returns the
\* engine's initial balance as final balance.
C15_EmptyRun ==
    (InRun /\ bars = <<>>) =>
        /\ calls = <<>>
        /\ closeLog = <<>>
        /\ results.Trades = <<>>
        /\ Balance = initialBalance
        /\ Returned => results.FinalBalance = initialBalance

C15_Witness ==
    /\ Returned
    /\ bars = <<>>
    /\ initialBalance # 10000
    /\ results.FinalBalance = initialBalance

AccountOps == {"OpenTrade", "CheckExits", "CloseAll"}

\* C18: a signal returned by OnBar whose type is not OPEN_TRADE is consumed
\* without any account operation: balance, open set, next position ID and
\* the closures are unchanged by it; in a Run every OpenTrade call is for
\* the OPEN_TRADE signal at the head of the pending signals.
C18_OtherSignalsIgnored ==
    [][/\ (/\ pc = "Signals"
           /\ signals # <<>>
           /\ Head(signals).Type # OPEN_TRADE)
          => /\ signals' = Tail(signals)
             /\ UNCHANGED <<Balance, openPositions, nextPositionID,
                            closeLog, results>>
             /\ \A k \in DOMAIN calls' :
                  k > Len(calls) => calls'[k].op \notin AccountOps
       /\ (InRun /\ IsCall("OpenTrade"))
          => /\ signals # <<>>
             /\ calls'[Len(calls')].signal = Head(signals)
             /\ Head(signals).Type = OPEN_TRADE]_vars

\* a signal of another type was passed over while a position was open, and
\* the position is still the only one
C18_Witness ==
    /\ InRun
    /\ \E k \in DOMAIN calls :
         /\ calls[k].op = "Ignore"
         /\ calls[k].signal.Type # OPEN_TRADE
         /\ k > 1
         /\ calls[k - 1].op = "OpenTrade"
    /\ Len(openPositions) = 1
    /\ Len(OpenTradeCalls) = 1
    /\ pc = "Signals"
    /\ signals = <<>>

\* the trades of the returned list that close position id
TradesOf(id) == SelectSeq(results.Trades, LAMBDA t : t.ID = id)
\* the bars after the bar with index idx (counted from 0)
BarsAfter(idx) == {k \in DOMAIN bars : k > idx + 1}
\* the High, Low and Close of the bars, in order
Levels == [k \in DOMAIN bars |-> <<bars[k].High, bars[k].Low, bars[k].Close>>]

\* C16: run with the engine test's strategy, a long whose take-profit is
\* reached by the high of the bar after its entry bar is closed on that bar
\* at the take-profit with PnL (TP - entry) * size; a short whose stop-loss
\* and take-profit are reached by no later bar is closed at the last bar's
\* close with reason END_OF_BACKTEST; and the four test bars with initial
\* balance 10000 give exactly the trades 100 -> 105, PnL 5 and
\* 105 -> 120, PnL -15 and the final balance 10000 + 5 - 15.
C16_EngineTestScenario ==
    Returned =>
      /\ \A k \in DOMAIN OpenTradeCalls :
           LET e == OpenTradeCalls[k]
               pos == e.pos
           IN /\ (/\ pos.Direction = LONG
                  /\ e.index + 2 <= Len(bars)
                  /\ bars[e.index + 2].High >= pos.TakeProfit)
                 => /\ Len(TradesOf(pos.ID)) = 1
                    /\ TradesOf(pos.ID)[1].ExitReason = "TAKE_PROFIT"
                    /\ TradesOf(pos.ID)[1].ExitPrice = pos.TakeProfit
                    /\ TradesOf(pos.ID)[1].ExitTime
                          = bars[e.index + 2].Timestamp
                    /\ TradesOf(pos.ID)[1].PnL
                          = (pos.TakeProfit - pos.EntryPrice) * pos.Size
              /\ (/\ pos.Direction = SHORT
                  /\ \A b \in BarsAfter(e.index) :
                       /\ bars[b].High < pos.StopLoss
                       /\ bars[b].Low > pos.TakeProfit)
                 => /\ Len(TradesOf(pos.ID)) = 1
                    /\ TradesOf(pos.ID)[1].ExitReason = "END_OF_BACKTEST"
                    /\ TradesOf(pos.ID)[1].ExitPrice = bars[Len(bars)].Close
                    /\ TradesOf(pos.ID)[1].ExitTime
                          = bars[Len(bars)].Timestamp
      /\ (/\ Levels = <<<<100, 100, 100>>, <<105, 105, 105>>,
                        <<110, 110, 110>>, <<120, 120, 120>>>>
          /\ initialBalance = 10000)
         => /\ Len(results.Trades) = 2
            /\ results.Trades[1].EntryPrice = 100
            /\ results.Trades[1].ExitPrice = 105
            /\ results.Trades[1].PnL = 5
            /\ results.Trades[2].EntryPrice = 105
            /\ results.Trades[2].ExitPrice = 120
            /\ results.Trades[2].PnL = -15
            /\ results.FinalBalance = 10000 + 5 - 15

\* the engine test itself has returned
C16_Witness ==
    /\ Returned
    /\ Levels = <<<<100, 100, 100>>, <<105, 105, 105>>,
                  <<110, 110, 110>>, <<120, 120, 120>>>>
    /\ initialBalance = 10000
    /\ Len(OpenTradeCalls) = 2
    /\ results.Trades[1].ExitReason = "TAKE_PROFIT"
    /\ results.Trades[2].ExitReason = "END_OF_BACKTEST"

\* C17: the trade list of Run is in time order and complete: every trade
\* exits no earlier than the trade before it, no STOP_LOSS or TAKE_PROFIT
\* trade follows an END_OF_BACKTEST trade, and at the return every position
\* that was opened has exactly one trade in the list.
C17_TradeListTimeOrdered ==
    /\ \A a, b \in DOMAIN results.Trades :
         a < b =>
           /\ results.Trades[a].ExitTime <= results.Trades[b].ExitTime
           /\ results.Trades[a].ExitReason = "END_OF_BACKTEST"
                => results.Trades[b].ExitReason = "END_OF_BACKTEST"
    /\ Returned =>
         /\ \A id \in AssignedIDs : Len(TradesOf(id)) = 1
         /\ Len(results.Trades) = Cardinality(AssignedIDs)

\* a trade closed by CheckExits on an earlier bar is followed by a trade
\* of CloseAll on the last bar
C17_Witness ==
    /\ Returned
    /\ Len(results.Trades) = 2
    /\ results.Trades[1].ExitReason \in {"TAKE_PROFIT", "STOP_LOSS"}
    /\ results.Trades[2].ExitReason = "END_OF_BACKTEST"
    /\ results.Trades[1].ExitTime < results.Trades[2].ExitTime

RECURSIVE EMAOver(_, _)
\* numerator and denominator of the value the rule gives after the prices:
\* the first price itself, then v' = (2 * price + (period - 1) * v) /
\* (period + 1), which is price * alpha + v * (1 - alpha) for
\* alpha = 2 / (period + 1)
EMAOver(period, prices) ==
    IF Len(prices) = 1 THEN <<prices[1], 1>>
    ELSE LET v == EMAOver(period, SubSeq(prices, 1, Len(prices) - 1))
             price == prices[Len(prices)]
         IN <<2 * price * v[2] + (period - 1) * v[1], (period + 1) * v[2]>>

\* C20: an EMA is not ready and has value 0 before its first Update; the
\* first Update sets the value to the price, every later one to
\* price * alpha + value * (1 - alpha) with alpha = 2 / (period + 1), and
\* it is ready from the first Update on; period 3 fed 10 then 20 has
\* value 15.
C20_EMAUpdateRule ==
    /\ EMAReady(ema) = (fed # <<>>)
    /\ ema.alpha[1] * (ema.period + 1) = 2 * ema.alpha[2]
    /\ fed = <<>> => EMAValue(ema) = <<0, 1>>
    /\ Len(fed) = 1 => EMAValue(ema) = <<fed[1], 1>>
    /\ fed # <<>> =>
         EMAValue(ema)[1] * EMAOver(ema.period, fed)[2]
            = EMAOver(ema.period, fed)[1] * EMAValue(ema)[2]
    /\ (ema.period = 3 /\ fed = <<10, 20>>) => EMAValue(ema) = <<15, 1>>

\* the EMA of period 3 has been fed 10 and then 20
C20_Witness ==
    /\ ema.period = 3
    /\ fed = <<10, 20>>
    /\ EMAReady(ema)
    /\ EMAValue(ema) = <<15, 1>>

\* the smaller of two numbers
Min(a, b) == IF a <= b THEN a ELSE b
\* the last n elements of seq
LastN(seq, n) == SubSeq(seq, Len(seq) - n + 1, Len(seq))

\* C21: after n Updates an SMA of period >= 1 holds exactly the last
\* min(n, period) prices in arrival order, Value() is their mean (0 for
\* n = 0) and Ready() holds exactly if n >= period; period 2 fed 1, 2, 3
\* has value 2.5 and is ready from the second update on.
C21_SMAWindowAndMean ==
    LET n == Len(fed)
        kept == Min(n, sma.period)
    IN /\ sma.values = LastN(fed, kept)
       /\ Len(sma.values) <= sma.period
       /\ n = 0 => SMAValue(sma) = <<0, 1>>
       /\ n > 0 =>
            SMAValue(sma)[1] * kept = SumSeq(LastN(fed, kept)) * SMAValue(sma)[2]
       /\ SMAReady(sma) = (n >= sma.period)
       /\ sma.period = 2 =>
            /\ fed = <<1, 2, 3>> => SMAValue(sma) = <<5, 2>>
            /\ n = 1 => ~SMAReady(sma)
            /\ n = 2 => SMAReady(sma)

\* the SMA of period 2 has been fed 1, 2, 3
C21_Witness ==
    /\ sma.period = 2
    /\ fed = <<1, 2, 3>>
    /\ sma.values = <<2, 3>>
    /\ SMAReady(sma)
    /\ SMAValue(sma) = <<5, 2>>

\* the largest of a non-empty finite set of numbers
MaxOf(S) == CHOOSE x \in S : \A y \in S : y <= x
\* the true range of the k-th bar fed (k >= 2) against the bar fed before it
TrueRangeAt(k) ==
    MaxOf({fed[k].High - fed[k].Low,
           fed[k].High - fed[k - 1].Close, fed[k - 1].Close - fed[k].High,
           fed[k].Low - fed[k - 1].Close, fed[k - 1].Close - fed[k].Low})
\* the true ranges of the bars fed so far, one for every bar but the first
TrueRanges == [k \in 1..(Len(fed) - 1) |-> TrueRangeAt(k + 1)]

\* C22: the first Update of an ATR of period >= 1 only stores the bar; each
\* later Update feeds the EMA one true range, computed against the bar of
\* the Update before it; Ready() holds exactly when at least period true
\* ranges have been fed, that is from Update number period + 1 on.
C22_ATRFeedsTrueRanges ==
    LET n == Len(fed)
    IN /\ atr.prevBar = (IF n = 0 THEN <<>> ELSE <<fed[n]>>)
       /\ atr.warmup = Len(TrueRanges)
       /\ n <= 1 =>
            /\ ~EMAReady(atr.ema)
            /\ ATRValue(atr) = <<0, 1>>
       /\ n >= 2 =>
            /\ EMAReady(atr.ema)
            /\ ATRValue(atr)[1] * EMAOver(atr.period, TrueRanges)[2]
                 = EMAOver(atr.period, TrueRanges)[1] * ATRValue(atr)[2]
       /\ ATRReady(atr) = (Len(TrueRanges) >= atr.period)
       /\ ATRReady(atr) = (n >= atr.period + 1)

\* an ATR of period 2 became ready on its third Update, whose true range
\* is the distance to the previous close and not the bar's own range
C22_Witness ==
    /\ atr.period = 2
    /\ Len(fed) = 3
    /\ ATRReady(atr)
    /\ atr.warmup = 2
    /\ TrueRangeAt(3) > fed[3].High - fed[3].Low
    /\ TrueRangeAt(2) # TrueRangeAt(3)

\* the size of the body of the k-th bar fed
BodyAt(k) == MaxOf({fed[k].Close - fed[k].Open, fed[k].Open - fed[k].Close})
\* the ATR is ready at the k-th bar fed: atrPeriod true ranges exist
ATRReadyAt(k) == k - 1 >= atrCandle.atrPeriod
\* the value of the ATR at the k-th bar fed (k >= 2), as <<num, den>>
ATRAt(k) ==
    EMAOver(atrCandle.atrPeriod, [j \in 1..(k - 1) |-> TrueRangeAt(j + 1)])
\* the body of the k-th bar is larger than ATR * atrMultiplier
BodyAboveATR(k) ==
    BodyAt(k) * ATRAt(k)[2] * atrCandle.atrMultiplier[2]
        > ATRAt(k)[1] * atrCandle.atrMultiplier[1]
\* the body of the k-th bar is larger than relativeSize times the body of
\* the bar before it
BodyAbovePrevious(k) ==
    BodyAt(k) * atrCandle.relativeSize[2]
        > BodyAt(k - 1) * atrCandle.relativeSize[1]
\* the k-th bar fed is a violation
ViolationAt(k) ==
    /\ ATRReadyAt(k)
    /\ BodyAboveATR(k)
    /\ atrCandle.withRelativeSize => BodyAbovePrevious(k)

\* C23: the violation counter is reset by every ready bar that is not a
\* violation, so Value() is 1 and LastViolation() is true exactly when the
\* last bar processed was a violation, and Value() is 0 after a ready bar
\* that is no violation, even if earlier bars were violations.
C23_ValueTellsLastBarViolation ==
    Len(fed) >= 1 =>
        /\ (ATRCandleValue(atrCandle) = 1) = ViolationAt(Len(fed))
        /\ LastViolation(atrCandle) = ViolationAt(Len(fed))
        /\ (ATRReadyAt(Len(fed)) /\ ~ViolationAt(Len(fed)))
             => ATRCandleValue(atrCandle) = 0

\* C24: a bar is counted as a violation exactly if the ATR is ready and
\* the body exceeds ATR.value * atrMultiplier and, in relative-size mode
\* only, also exceeds relativeSize times the body of the bar of the
\* preceding Update; before the ATR is ready nothing is counted and
\* Value() is 0.
C24_ViolationCondition ==
    /\ atrCandle.violationCount
         = Cardinality({k \in 1..Len(fed) : ViolationAt(k)})
    /\ ~(\E k \in 1..Len(fed) : ATRReadyAt(k)) =>
         /\ atrCandle.violationCount = 0
         /\ ATRCandleValue(atrCandle) = 0

\* in relative-size mode a bar was counted, and the bar after it was not,
\* though its body exceeds the ATR threshold: it does not exceed
\* relativeSize times the body before it
C24_Witness ==
    /\ atrCandle.withRelativeSize
    /\ Len(fed) >= 3
    /\ ViolationAt(Len(fed) - 1)
    /\ BodyAboveATR(Len(fed))
    /\ ~BodyAbovePrevious(Len(fed))
    /\ atrCandle.violationCount = 1

\* C25: an ATRCandle is ready exactly if its ATR is ready and it has a
\* previous bar; for atrPeriod >= 1 that is after RequiredPeriods() =
\* atrPeriod + 1 Updates and from then on.
C25_ATRCandleReady ==
    /\ ATRCandleReady(atrCandle, atr)
         = (ATRReady(atr) /\ atrCandle.prevBar # <<>>)
    /\ ATRCandleReady(atrCandle, atr)
         = (Len(fed) >= RequiredPeriods(atrCandle))
    /\ RequiredPeriods(atrCandle) = atrCandle.atrPeriod + 1
    /\ Len(fed) <= atrCandle.atrPeriod => ~ATRCandleReady(atrCandle, atr)

\* an ATRCandle of period 2 has just become ready, on its third Update
C25_Witness ==
    /\ atrCandle.atrPeriod = 2
    /\ Len(fed) = 3
    /\ ATRCandleReady(atrCandle, atr)
    /\ atrCandle.prevBar = <<fed[3]>>

\* the calls of Calculate that computed their result
Computed == SelectSeq(fed, LAMBDA e : ~e.cached)

\* C26: Calculate on a Results with no trades returns a Statistics in which
\* every count, rate, average, P&L figure, drawdown and duration is zero,
\* none of them the result of a division by the number of trades, whatever
\* InitialBalance and FinalBalance are.
C26_EmptyTradeListAllZero ==
    \A k \in DOMAIN Computed :
        Computed[k].seen.Trades = <<>> =>
            Computed[k].returned =
               [TotalTrades |-> 0, WinningTrades |-> 0, LosingTrades |-> 0,
                WinRate |-> <<0, 1>>, TotalPnL |-> 0,
                TotalPnLPercent |-> <<0, 1>>, GrossProfit |-> 0,
                GrossLoss |-> 0, ProfitFactor |-> <<0, 1>>,
                AvgWin |-> <<0, 1>>, AvgLoss |-> <<0, 1>>,
                ExpectedValue |-> <<0, 1>>, MaxDrawdown |-> 0,
                MaxDrawdownPercent |-> <<0, 1>>, AvgTradeDuration |-> 0]

\* Calculate has computed the statistics of a Results with no trades, an
\* InitialBalance of 0 and another FinalBalance
C26_Witness ==
    \E k \in DOMAIN Computed :
        /\ Computed[k].seen.Trades = <<>>
        /\ Computed[k].seen.InitialBalance = 0
        /\ Computed[k].seen.FinalBalance # 0
        /\ Computed[k].returned.TotalTrades = 0

\* C27: the statistics are a function of InitialBalance and the trade
\* list: they do not change with FinalBalance, TotalPnL is the sum of the
\* trades' PnL and ExpectedValue that sum divided by the number of trades.
C27_StatisticsFromTradeListAlone ==
    \A k \in DOMAIN Computed :
        LET seen == Computed[k].seen
            sum == SumPnL(seen.Trades)
        IN seen.Trades # <<>> =>
             /\ Computed[k].returned.TotalPnL = sum
             /\ Computed[k].returned.ExpectedValue[1] * Len(seen.Trades)
                  = sum * Computed[k].returned.ExpectedValue[2]
             /\ \A drift \in BalanceDrifts :
                  ComputeStatistics(
                     [seen EXCEPT !.FinalBalance =
                         seen.InitialBalance + sum + drift])
                    = Computed[k].returned

\* C28: Calculate computes once: every later call on the same Results
\* returns the Statistics of the first call, from the cache, also when the
\* first call saw no trades and when Trades or FinalBalance have changed
\* since.
C28_CalculateCachesFirstResult ==
    \A k \in DOMAIN fed :
        /\ fed[k].cached = (k > 1)
        /\ fed[k].returned = fed[1].returned
        /\ calcResults.stats = <<fed[1].returned>>

\* the first call saw no trades; a trade was added and FinalBalance
\* changed before the second call, which returned the first call's record
C28_Witness ==
    /\ Len(fed) = 2
    /\ fed[1].seen.Trades = <<>>
    /\ fed[2].seen.Trades # <<>>
    /\ fed[2].seen.FinalBalance # fed[1].seen.FinalBalance
    /\ fed[2].returned.TotalTrades = 0
    /\ fed[2].returned # ComputeStatistics(fed[2].seen)

\* the running balance after the first k trades of a Results
RunningBalance(res, k) == res.InitialBalance + SumPnL(SubSeq(res.Trades, 1, k))
\* the highest running balance up to the first k trades
PeakAt(res, k) == MaxOf({RunningBalance(res, j) : j \in 0..k})
\* the drawdown after the first k trades
DrawdownAt(res, k) == PeakAt(res, k) - RunningBalance(res, k)

\* C29: MaxDrawdown is the largest drawdown (highest running balance so
\* far minus the running balance) over all prefixes of the trade list,
\* replayed from InitialBalance; MaxDrawdownPercent is that drawdown as a
\* percentage of the peak it was measured from.
C29_MaxDrawdownAndPercentOfItsPeak ==
    \A k \in DOMAIN Computed :
        LET seen == Computed[k].seen
            n == Len(seen.Trades)
            maxDD == MaxOf({DrawdownAt(seen, j) : j \in 0..n})
        IN n > 0 =>
             /\ Computed[k].returned.MaxDrawdown = maxDD
             /\ \E j \in 0..n :
                  /\ DrawdownAt(seen, j) = maxDD
                  /\ PeakAt(seen, j) > 0 =>
                       Computed[k].returned.MaxDrawdownPercent[1]
                           * PeakAt(seen, j)
                         = maxDD * 100
                             * Computed[k].returned.MaxDrawdownPercent[2]

\* the calls of New, in order: the k-th one created loggers[k]
NewCalls == SelectOp(fed, "New")
\* the Debug, Info and Warn calls made so far
LogCalls == SelectOp(fed, "Log")

\* C30: a Logger is enabled exactly if the enabled-topic set held its
\* topic or the wildcard "*" when New created it; with an empty set every
\* logger is disabled; Debug, Info and Warn of a disabled logger emit
\* nothing.
C30_LoggerEnabledByTopicAtCreation ==
    /\ Len(NewCalls) = Len(loggers)
    /\ \A k \in DOMAIN loggers :
         /\ loggers[k].topic = NewCalls[k].topic
         /\ LoggerEnabled(loggers[k])
              = (NewCalls[k].topic \in NewCalls[k].topics
                 \/ "*" \in NewCalls[k].topics)
         /\ NewCalls[k].topics = {} => ~LoggerEnabled(loggers[k])
    /\ \A m \in DOMAIN logged : LoggerEnabled(loggers[logged[m].logger])
    /\ Len(logged)
         = Cardinality({j \in DOMAIN LogCalls :
                           LoggerEnabled(loggers[LogCalls[j].logger])})

\* two loggers for one topic, the first created enabled through the
\* wildcard and the second disabled under an empty set; each was called
\* once and only the first emitted
C30_Witness ==
    /\ Len(loggers) = 2
    /\ loggers[1].topic = loggers[2].topic
    /\ NewCalls[1].topics = {"*"}
    /\ NewCalls[2].topics = {}
    /\ LoggerEnabled(loggers[1])
    /\ ~LoggerEnabled(loggers[2])
    /\ {LogCalls[j].logger : j \in DOMAIN LogCalls} = {1, 2}
    /\ Len(logged) = 1
\* C31: GetPipsFromInstr panics for every instrument other than NAS100_USD
\* and returns no pip size, so OpenLong and OpenShort produce no signal for
\* such a symbol; for NAS100_USD it returns 0.1 and a signal is produced
\* whose stop lies stopLossPips * 0.1 from the entry price.
C31_UnsupportedInstrumentPanics ==
    \A k \in DOMAIN fed :
        IF strat.symbol = NAS100
        THEN /\ ~fed[k].out.panicked
             /\ fed[k].out.pipSize = <<<<1, 10>>>>
             /\ fed[k].out.signal # <<>>
             /\ LET sig == fed[k].out.signal[1]
                    step == FracSub(sig.Price, sig.SL)
                IN /\ sig.Price = FracOf(fed[k].bar.Close)
                   /\ <<Abs(step[1]), step[2]>>
                        = Norm(<<strat.stopLossPips, 10>>)
        ELSE /\ fed[k].out.panicked
             /\ fed[k].out.pipSize = <<>>
             /\ fed[k].out.signal = <<>>

C31_Witness ==
    /\ Len(fed) = 1
    /\ strat.symbol = GBPUSD
    /\ fed[1].op = "OpenShort"
    /\ fed[1].out.panicked
    /\ fed[1].out.signal = <<>>

\* a supported symbol yields signals, call after call
C31_WitnessSupported ==
    /\ Len(fed) = 2
    /\ strat.symbol = NAS100
    /\ strat.stopLossPips = 20
    /\ fed[1].op = "OpenLong"
    /\ fed[2].op = "OpenShort"
    /\ fed[2].out.signal[1].SL = FracOf(fed[2].bar.Close + 2)

\* the answer of the server to the latest batch request made FetchBars fail
LastReplyFails ==
    /\ fed # <<>>
    /\ \/ fed[Len(fed)].err # <<>>
       \/ candlesToBars(fed[Len(fed)].Candles).err # <<>>

\* C32: FetchBars never returns a partially populated bar sequence on
\* failure: after a transport error, a non-200 status, a decode failure, an
\* invalid granularity or a candle that does not convert, it has returned
\* an error and no bars, whatever earlier batches had delivered; and a
\* return without error hands back all the bars gathered.
C32_NoPartialBarsOnFailure ==
    /\ (fetch.pc # "start" /\ ToDuration(fetch.req.Granularity).err # <<>>)
         => fetch.ret # <<>> /\ fetch.ret[1].err # <<>>
    /\ LastReplyFails => fetch.ret # <<>> /\ fetch.ret[1].err # <<>>
    /\ fetch.ret # <<>> =>
         /\ fetch.pc = "done"
         /\ fetch.ret[1].err # <<>> => fetch.ret[1].bars = <<>>
         /\ fetch.ret[1].err = <<>> => fetch.ret[1].bars = fetch.allBars

\* a failure in a later batch, after bars had been gathered
C32_Witness ==
    /\ fetch.ret # <<>>
    /\ fetch.ret[1].err = <<"failed to parse candle price">>
    /\ fetch.ret[1].bars = <<>>
    /\ Len(fetch.allBars) >= 2
    /\ Len(fetch.requests) = 2

\* C38: the batching loop of FetchBars terminates: in every iteration that
\* neither returns nor breaks currentFrom strictly increases, whatever
\* candles the server returns.
C38_CurrentFromAdvances ==
    [][(fetch.pc = "loop" /\ fetch'.pc = "loop")
          => fetch'.currentFrom > fetch.currentFrom]_vars

\* the account of a Run made alone on bars bs with initial balance bal,
\* after n whole iterations in which OnBar returned got[1], ..., got[n]
RECURSIVE SoloAccount(_, _, _, _)
SoloAccount(bs, bal, got, n) ==
    IF n = 0
    THEN [Balance |-> bal, openPositions |-> <<>>, nextPositionID |-> 1]
    ELSE AccOpenAll(AccCheckExits(SoloAccount(bs, bal, got, n - 1), bs[n]),
                    got[n], bs[n].Timestamp)

\* the account such a Run has at the statement a stands at
SoloAccountAt(a) ==
    LET loop == SoloAccount(bars, initialBalance, a.got, a.i)
    IN IF a.pc = "OnBar" THEN AccCheckExits(loop, bars[a.i + 1])
       ELSE IF a.pc = "done" /\ bars # <<>>
       THEN AccCloseAll(loop, bars[Len(bars)])
       ELSE loop

\* the number of OPEN_TRADE signals in the signal lists got
RECURSIVE OpenSignalsIn(_)
OpenSignalsIn(got) ==
    IF got = <<>> THEN 0
    ELSE Len(SelectSeq(Head(got), LAMBDA sig : sig.Type = OPEN_TRADE))
           + OpenSignalsIn(Tail(got))

\* every activation is where a Run made alone would be
RunsIsolated ==
    \A k \in Runners :
       runs[k].pc # "idle" =>
          /\ runs[k].acc = SoloAccountAt(runs[k])
          /\ runs[k].acc.nextPositionID = 1 + OpenSignalsIn(runs[k].got)
          /\ \A n \in DOMAIN runs[k].acc.openPositions :
                runs[k].acc.openPositions[n].ID
                   \in 1..OpenSignalsIn(runs[k].got)
          /\ runs[k].got = <<>> =>
                /\ runs[k].acc.Balance = initialBalance
                /\ runs[k].acc.openPositions = <<>>

\* C33: two Run invocations on the same Engine, one after the other or
\* interleaved, never share account state: each has its own account, which
\* starts at the configured initial balance with IDs from 1 and is at every
\* statement what it would be had the Run been made alone; a step of one
\* Run leaves the other's account and results alone, and no step of Run
\* changes the Engine's bars or initial balance.
C33_RunsShareNoAccountState ==
    /\ []RunsIsolated
    /\ [][/\ bars' = bars
          /\ initialBalance' = initialBalance
          /\ \A k \in Runners :
                runs'[k] # runs[k] =>
                   \A j \in Runners \ {k} : runs'[j] = runs[j]]_vars

\* both callers are inside Run at once, with different accounts
C33_Witness ==
    /\ bars # <<>>
    /\ runs["first"].pc = "OnBar"
    /\ runs["first"].i = 1
    /\ runs["first"].acc.nextPositionID = 3
    /\ runs["second"].pc = "CheckExits"
    /\ runs["second"].i = 1
    /\ runs["second"].acc.nextPositionID = 2
    /\ runs["second"].acc.openPositions[1].ID = 1
    /\ runs["first"].acc.Balance # runs["second"].acc.Balance

\* one Run has returned before the other starts
C33_WitnessSequential ==
    /\ runs["first"].pc = "done"
    /\ runs["first"].results.Trades # <<>>
    /\ runs["second"].pc = "CheckExits"
    /\ runs["second"].i = 0
    /\ runs["second"].acc.nextPositionID = 1

\* C34: the InitialBalance of the Results that Run returns is the initial
\* balance the Engine was constructed with, whatever that balance is, so
\* that FinalBalance - InitialBalance is what the run added to the account.
C34_ResultsCarryEngineInitialBalance ==
    (InRun /\ Returned) =>
        /\ results.InitialBalance = initialBalance
        /\ results.FinalBalance - results.InitialBalance
             = Balance - initialBalance

\* the IDs of the positions or trades of seq, in the order of seq
IDsAscend(seq) ==
    \A a, b \in DOMAIN seq : a < b => seq[a].ID < seq[b].ID

\* C35: after any sequence of OpenTrade, CheckExits and CloseAll calls the
\* open set is ordered by strictly ascending position ID, and so the trades
\* returned by one CheckExits or CloseAll call are in ascending ID order.
C35_OpenSetAscendsByID ==
    /\ IDsAscend(openPositions)
    /\ (calls # <<>> /\ LastCall.op \in {"CheckExits", "CloseAll"}) =>
          /\ IDsAscend(LastCall.before)
          /\ IDsAscend(LastCall.trades)

\* two positions survive a CheckExits and are then closed by CloseAll
C35_Witness ==
    /\ Returned
    /\ calls # <<>>
    /\ LastCall.op = "CloseAll"
    /\ Len(LastCall.trades) = 2
    /\ LastCall.trades[1].ID = 1
    /\ LastCall.trades[2].ID = 2
    /\ \E k \in DOMAIN calls :
          calls[k].op = "CheckExits" /\ Len(calls[k].after) = 2

\* C36: every position in the open set has direction LONG or SHORT: an
\* OpenTrade with a signal whose action is neither BUY nor SELL creates no
\* position with an empty direction, and none is closed under the rules of
\* a SHORT.
C36_EveryPositionHasDirection ==
    /\ \A k \in DOMAIN openPositions :
          openPositions[k].Direction \in {LONG, SHORT}
    /\ \A k \in DOMAIN closeLog :
          closeLog[k].Direction \in {LONG, SHORT}

\* C37: the branch of checkViolation for a nil previous bar is unreachable
\* through Update: whenever an Update calls checkViolation, that is whenever
\* the ATR is ready after its own Update, the ATRCandle already holds the
\* bar of an earlier Update as previous bar, for every atrPeriod, zero and
\* negative ones included.
C37_CheckViolationSeesPreviousBar ==
    [][ATRReady(atr)' =>
          /\ atrCandle.prevBar # <<>>
          /\ atrCandle.prevBar = <<fed[Len(fed)]>>]_vars

\* an ATRCandle of period -1 has called checkViolation, on its second
\* Update, and counted the bar
C37_Witness ==
    /\ atrCandle.atrPeriod = -1
    /\ Len(fed) = 2
    /\ ATRReady(atr)
    /\ atrCandle.violationCount = 1
    /\ atrCandle.prevBar = <<fed[2]>>

====
